---- MODULE Spec2Model ----
(***************************************************************************)
(* A model of gpr2.21.py: the GPR point-cloud pipeline (process_gpr_data), *)
(* the mesh builders (generate_surface_mesh, generate_depth_slices) and    *)
(* the job registry kept by the Flask handlers.                            *)
(*                                                                         *)
(* Numbers.  The program computes in float64; the model computes in exact  *)
(* rational arithmetic carried by integers.  A coordinate is an integer    *)
(* numerator over the data set's common denominator (den), a quantile is   *)
(* compared after multiplying both sides by the quantile's denominator.    *)
(* Rounding of float64 is not modelled.                                    *)
(***************************************************************************)
EXTENDS Integers, Sequences, FiniteSets, TLC

VARIABLES
    request,            \* per run: the HTTP request the client sends to /upload
    pc,                 \* per run: position of the handler / worker thread
    job_id,             \* per run: local job_id
    settings,           \* per run: local settings dict
    df,                 \* per run: the parsed table
    data,               \* per run: the numeric rows (x, y, z, amp), normalised
    den,                \* per run: common denominator of the coordinates of data
    threshold,          \* per run: threshold * PctDen
    df_filtered,        \* per run: rows above the threshold
    num_slices,         \* per run: local num_slices
    slices,             \* per run: the list returned by generate_depth_slices
    slice_i,            \* per run: index of the slice being written
    iso_range,          \* per run: the bin label of each row of df_filtered
    actual_bins,        \* per run: local actual_bins
    iso_level,          \* per run: loop variable of the layer loop
    ply_files,          \* per run: local ply_files
    total_output_points,\* per run: local total_output_points
    amplitude_ranges,   \* per run: local amplitude_ranges, (iso_min, iso_max) per written layer
    layer_index,        \* per run: per written layer, the positions in df_filtered of its rows
    enc_i,              \* per run: index of the encoding being tried
    exc,                \* per run: the exception being propagated
    budget,             \* per run: failures the environment may still inject
    faults,             \* per run: environment failures met so far
    processing_jobs,    \* the global registry
    uploads,            \* the upload folder: job id -> file
    processed,          \* the processed folder: job id -> (file name -> content)
    log,                \* per run: lines printed by the run
    default_settings,   \* the module-level dict DEFAULT_SETTINGS
    mesh_pc,            \* mesh builder: position in the builder
    mesh_kind,          \* mesh builder: "surface" or "slice"
    resolution,         \* mesh builder: parameter resolution
    x_range,            \* mesh builder: (x.min(), x.max())
    y_range,            \* mesh builder: (y.min(), y.max())
    zi_grid,            \* mesh builder: zi_grid after the smoothing (surface)
    depth,              \* mesh builder: loop variable depth (slice)
    amp_grid,           \* mesh builder: amp_grid after the smoothing
    node,               \* mesh builder: loop variables (i, j)
    vertices,           \* mesh builder: local vertices
    vertex_colors,      \* mesh builder: local vertex_colors
    faces,              \* mesh builder: local faces
    obj_lines,          \* OBJ writer: the lines written to the file so far
    obj_i               \* OBJ writer: iterations of the current loop done

runvars == <<request, pc, job_id, settings>>
tabvars == <<df, data, den, threshold, df_filtered>>
srfvars == <<num_slices, slices, slice_i>>
layvars == <<iso_range, actual_bins, iso_level, ply_files, total_output_points,
            amplitude_ranges, layer_index>>
envvars == <<enc_i, exc, budget, faults>>
globals == <<processing_jobs, uploads, processed, log>>
locals == <<tabvars, srfvars, layvars>>
meshvars == <<mesh_pc, mesh_kind, resolution, x_range, y_range, zi_grid, depth, amp_grid,
             node, vertices, vertex_colors, faces, obj_lines, obj_i>>
vars == <<runvars, tabvars, srfvars, layvars, envvars, globals, default_settings, meshvars>>

(***************************************************************************)
(* Bounds of the model.                                                    *)
(***************************************************************************)
MaxRows == 3        \* rows of an uploaded table (binning inputs)
MaxBins == 3        \* largest iso_bins tried
MaxAmp == 3         \* largest |amplitude| in a table

Threads == {1, 2}
JobIds == {"a1b2c3d4", "e5f6a7b8"}

(***************************************************************************)
(* Sequences.                                                              *)
(***************************************************************************)
Range(s) == {s[i] : i \in 1..Len(s)}

RECURSIVE SumSeq(_)
SumSeq(s) == IF s = <<>> THEN 0 ELSE Head(s) + SumSeq(Tail(s))

Abs(v) == IF v < 0 THEN -v ELSE v
Max2(a, b) == IF a >= b THEN a ELSE b
SetMax(S) == CHOOSE m \in S : \A v \in S : v <= m
SetMin(S) == CHOOSE m \in S : \A v \in S : m <= v

RECURSIVE Insert(_, _)
Insert(v, s) ==
    IF s = <<>> THEN <<v>>
    ELSE IF v <= Head(s) THEN <<v>> \o s
    ELSE <<Head(s)>> \o Insert(v, Tail(s))

RECURSIVE Sorted(_)
Sorted(s) == IF s = <<>> THEN <<>> ELSE Insert(Head(s), Sorted(Tail(s)))

\* a dict with one key set
Put(d, k, v) == [x \in DOMAIN d \cup {k} |-> IF x = k THEN v ELSE d[x]]

(***************************************************************************)
(* Settings.  threshold_percentile is carried as a number of hundredths.   *)
(***************************************************************************)
PctDen == 100

DEFAULT_SETTINGS ==
    [ col_idx_x |-> 0, col_idx_y |-> 1, col_idx_z |-> 7, col_idx_amplitude |-> 8,
      threshold_percentile |-> 95, iso_bins |-> 5,
      invert_depth |-> TRUE, center_coordinates |-> TRUE,
      generate_surface |-> TRUE, surface_resolution |-> 100,
      surface_depth_slices |-> 5, generate_amplitude_surface |-> TRUE,
      max_points_per_layer |-> 500000 ]

\* upload_file, lines 1281-1296: a copy of the module's dict, each key overridden by
\* the form's value; the dict itself is not written
FormSettings(form) ==
    [k \in DOMAIN default_settings |->
        IF k \in DOMAIN form THEN form[k] ELSE default_settings[k]]

\* a status message or a printed line: its fixed text and the values formatted into it
Msg(text, args) == [text |-> text, args |-> args]

(***************************************************************************)
(* Cells of the uploaded table: a number, or text that is no number.       *)
(***************************************************************************)
Num(v) == [kind |-> "number", v |-> v]
Text == [kind |-> "text", v |-> 0]

\* a float64: a value, or NaN
Float(v) == [nan |-> FALSE, v |-> v]
NaN == [nan |-> TRUE, v |-> 0]

\* df = None: pd.read_csv returns no table without columns
NoTable == [ncols |-> 0, rows |-> <<>>]

\* pd.to_numeric(errors='coerce') on one cell
ToNumeric(cell) == IF cell.kind = "number" THEN Float(cell.v) ELSE NaN

(***************************************************************************)
(* The registry: processing_jobs[job_id][key] = value raises KeyError when *)
(* the job has no entry.                                                   *)
(***************************************************************************)
HasJob(id) == id \in DOMAIN processing_jobs

SetMessage(id, m) ==
    [processing_jobs EXCEPT ![id] = [@ EXCEPT !.message = m]]

SetStatus(id, s, m) ==
    [processing_jobs EXCEPT ![id] = [@ EXCEPT !.status = s, !.message = m]]

Say(t, line) == [log EXCEPT ![t] = Append(@, line)]

Goto(t, p) == pc' = [pc EXCEPT ![t] = p]

\* an exception leaves the try block of process_gpr_data
Raise(t, e) ==
    /\ pc' = [pc EXCEPT ![t] = "except"]
    /\ exc' = [exc EXCEPT ![t] = e]

(***************************************************************************)
(* upload_file                                                             *)
(***************************************************************************)
Upload(t) ==
    /\ pc[t] = "idle"
    /\ request[t] # <<>>
    /\ LET req == Head(request[t])
           id == req.uuid
           st == FormSettings(req.form)
       IN  /\ job_id' = [job_id EXCEPT ![t] = id]
           /\ request' = [request EXCEPT ![t] = Tail(@)]
           /\ uploads' = Put(uploads, id, req.file)
           /\ settings' = [settings EXCEPT ![t] = st]
           /\ processing_jobs' = Put(processing_jobs, id,
                  [status |-> "pending", message |-> Msg("Waiting to start...", <<>>),
                   settings |-> st])
    /\ Goto(t, "pending")
    /\ UNCHANGED <<locals, envvars, processed, log>>
    /\ UNCHANGED <<default_settings, meshvars>>

(***************************************************************************)
(* process_gpr_data, lines 1021-1022                                       *)
(***************************************************************************)
Start(t) ==
    /\ pc[t] = "pending"
    /\ IF HasJob(job_id[t])
       THEN /\ processing_jobs' =
                   SetStatus(job_id[t], "processing", Msg("Loading CSV file...", <<>>))
            /\ log' = Say(t, Msg("Processing job", <<>>))
            /\ Goto(t, "mkdir")
            /\ UNCHANGED exc
       ELSE /\ Raise(t, "KeyError")
            /\ UNCHANGED <<processing_jobs, log>>
    /\ UNCHANGED <<request, job_id, settings, locals, enc_i, budget, faults, uploads, processed>>
    /\ UNCHANGED <<default_settings, meshvars>>

\* lines 1027-1032
MakeOutputDir(t) ==
    /\ pc[t] = "mkdir"
    /\ processed' = IF job_id[t] \in DOMAIN processed THEN processed
                    ELSE Put(processed, job_id[t], <<>>)
    /\ IF HasJob(job_id[t])
       THEN /\ processing_jobs' =
                   SetMessage(job_id[t], Msg("Detecting file encoding...", <<>>))
            /\ Goto(t, "load")
            /\ UNCHANGED exc
       ELSE /\ Raise(t, "KeyError")
            /\ UNCHANGED processing_jobs
    /\ enc_i' = [enc_i EXCEPT ![t] = 1]
    /\ UNCHANGED <<request, job_id, settings, locals, budget, faults, uploads, log>>
    /\ UNCHANGED <<default_settings, meshvars>>

(***************************************************************************)
(* Loading, lines 1033-1055.  The uploaded file is a table and, for each   *)
(* candidate encoding, what pd.read_csv does under it: "ok", one of the    *)
(* two caught exception types, or another exception ("EmptyDataError" for  *)
(* a file with no columns).                                                *)
(***************************************************************************)
encodings == <<"utf-8", "latin1", "ISO-8859-1", "cp1252", "utf-16", "ascii">>

Caught(outcome) == outcome \in {"UnicodeDecodeError", "ParserError"}

\* one iteration of the loop over encodings, lines 1036-1043
TryEncoding(t) ==
    /\ pc[t] = "load"
    /\ enc_i[t] <= Len(encodings)
    /\ IF job_id[t] \notin DOMAIN uploads
       THEN /\ Raise(t, "FileNotFoundError")
            /\ UNCHANGED <<df, enc_i, log>>
       ELSE LET outcome == uploads[job_id[t]].reads[enc_i[t]]
            IN  IF outcome = "ok"
                THEN /\ df' = [df EXCEPT ![t] = uploads[job_id[t]].table]
                     /\ log' = Say(t, Msg("Successfully read", <<enc_i[t]>>))
                     /\ Goto(t, "found")
                     /\ UNCHANGED <<enc_i, exc>>
                ELSE IF Caught(outcome)
                THEN /\ log' = Say(t, Msg("Failed with", <<enc_i[t]>>))
                     /\ enc_i' = [enc_i EXCEPT ![t] = @ + 1]
                     /\ UNCHANGED <<pc, df, exc>>
                ELSE /\ Raise(t, outcome)
                     /\ UNCHANGED <<df, enc_i, log>>
    /\ UNCHANGED <<request, job_id, settings, data, den, threshold, df_filtered,
                   srfvars, layvars, budget, faults, processing_jobs, uploads, processed>>
    /\ UNCHANGED <<default_settings, meshvars>>

\* df is None after the loop: lines 1045-1053
ReadIgnoringErrors(t) ==
    /\ pc[t] = "load"
    /\ enc_i[t] > Len(encodings)
    /\ IF job_id[t] \in DOMAIN uploads /\ uploads[job_id[t]].lossy = "ok"
       THEN /\ df' = [df EXCEPT ![t] = uploads[job_id[t]].table]
            /\ log' = Say(t, Msg("Read with encoding errors ignored", <<>>))
            /\ Goto(t, "found")
            /\ UNCHANGED <<exc, processing_jobs>>
       ELSE IF HasJob(job_id[t])
       THEN /\ processing_jobs' =
                   SetStatus(job_id[t], "error", Msg("Failed to read CSV file", <<>>))
            /\ Goto(t, "done")
            /\ UNCHANGED <<df, exc, log>>
       ELSE /\ Raise(t, "KeyError")
            /\ UNCHANGED <<df, log, processing_jobs>>
    /\ UNCHANGED <<request, job_id, settings, data, den, threshold, df_filtered,
                   srfvars, layvars, enc_i, budget, faults, uploads, processed>>
    /\ UNCHANGED <<default_settings, meshvars>>

(***************************************************************************)
(* Column check, lines 1055-1062.                                          *)
(***************************************************************************)
\* a check that looks at the x, y and z indices only
MaxCoordinateIdx(st) ==
    SetMax({st.col_idx_x, st.col_idx_y, st.col_idx_z})

MaxColIdx(st) ==
    SetMax({st.col_idx_x, st.col_idx_y, st.col_idx_z, st.col_idx_amplitude})

CheckColumns(t) ==
    /\ pc[t] = "found"
    /\ IF ~HasJob(job_id[t])
       THEN /\ Raise(t, "KeyError")
            /\ UNCHANGED processing_jobs
       ELSE IF df[t].ncols <= MaxColIdx(settings[t])
       THEN /\ processing_jobs' = SetStatus(job_id[t], "error",
                   Msg("CSV file has only columns, but need column index",
                       <<df[t].ncols, MaxColIdx(settings[t])>>))
            /\ Goto(t, "done")
            /\ UNCHANGED exc
       ELSE /\ processing_jobs' =
                   SetMessage(job_id[t], Msg("Found rows, processing...", <<Len(df[t].rows)>>))
            /\ Goto(t, "coerce")
            /\ UNCHANGED exc
    /\ UNCHANGED <<request, job_id, settings, locals, enc_i, budget, faults, uploads,
                   processed, log>>
    /\ UNCHANGED <<default_settings, meshvars>>

(***************************************************************************)
(* Extraction, lines 1065-1078: the four selected cells of each row are    *)
(* coerced, rows with a NaN are dropped.                                   *)
(***************************************************************************)
\* df.iloc[:, idx] of one row; columns are 0-based
Cell(row, idx) == row[idx + 1]

RawRow(row, st) ==
    [x |-> ToNumeric(Cell(row, st.col_idx_x)),
     y |-> ToNumeric(Cell(row, st.col_idx_y)),
     z |-> ToNumeric(Cell(row, st.col_idx_z)),
     amp |-> ToNumeric(Cell(row, st.col_idx_amplitude))]

\* a dropna that looks at the coordinates only
HasNaNCoordinate(r) == r.x.nan \/ r.y.nan \/ r.z.nan

HasNaN(r) == r.x.nan \/ r.y.nan \/ r.z.nan \/ r.amp.nan

Point(r) == [x |-> r.x.v, y |-> r.y.v, z |-> r.z.v, amp |-> r.amp.v]

\* DataFrame({...}).dropna()
RECURSIVE DropNa(_)
DropNa(rs) ==
    IF rs = <<>> THEN <<>>
    ELSE (IF HasNaN(Head(rs)) THEN <<>> ELSE <<Point(Head(rs))>>) \o DropNa(Tail(rs))

Extract(table, st) == DropNa([i \in 1..Len(table.rows) |-> RawRow(table.rows[i], st)])

Coerce(t) ==
    /\ pc[t] = "coerce"
    /\ LET d == Extract(df[t], settings[t])
       IN  /\ data' = [data EXCEPT ![t] = d]
           /\ den' = [den EXCEPT ![t] = 1]
           /\ IF Len(d) # 0
              THEN /\ Goto(t, "normalise")
                   /\ UNCHANGED <<exc, processing_jobs>>
              ELSE IF HasJob(job_id[t])
              THEN /\ processing_jobs' = SetStatus(job_id[t], "error",
                          Msg("No valid numeric data found in specified columns", <<>>))
                   /\ Goto(t, "done")
                   /\ UNCHANGED exc
              ELSE /\ Raise(t, "KeyError")
                   /\ UNCHANGED processing_jobs
    /\ UNCHANGED <<request, job_id, settings, df, threshold, df_filtered, srfvars,
                   layvars, enc_i, budget, faults, uploads, processed, log>>
    /\ UNCHANGED <<default_settings, meshvars>>

(***************************************************************************)
(* Coordinates, lines 1081-1095.  A coordinate of a row is its numerator   *)
(* over the common denominator d.                                          *)
(***************************************************************************)
Column(rows, f) == [i \in 1..Len(rows) |-> rows[i][f]]
ColMax(rows, f) == SetMax(Range(Column(rows, f)))
ColMin(rows, f) == SetMin(Range(Column(rows, f)))

\* data['z'] = -data['z'].abs()
InvertDepth(rows) == [i \in 1..Len(rows) |-> [rows[i] EXCEPT !.z = -Abs(@)]]

\* a centring that takes the mean depth off z as well
CenterAll(rows) ==
    LET n == Len(rows)
        sx == SumSeq(Column(rows, "x"))
        sy == SumSeq(Column(rows, "y"))
        sz == SumSeq(Column(rows, "z"))
    IN  [i \in 1..n |->
            [rows[i] EXCEPT !.x = n * @ - sx, !.y = n * @ - sy, !.z = n * @ - sz]]

\* data['x'] -= data['x'].mean(); data['y'] -= data['y'].mean():
\* x - sum/n = (n*x - sum)/n, so every coordinate goes over the denominator n*d
Center(rows) ==
    LET n == Len(rows)
        sx == SumSeq(Column(rows, "x"))
        sy == SumSeq(Column(rows, "y"))
    IN  [i \in 1..n |-> [rows[i] EXCEPT !.x = n * @ - sx, !.y = n * @ - sy, !.z = n * @]]

\* max(x.max() - x.min(), y.max() - y.min()), as a numerator
MaxRange(rows) ==
    Max2(ColMax(rows, "x") - ColMin(rows, "x"), ColMax(rows, "y") - ColMin(rows, "y"))

ScaleLimit == 50
ScaleTarget == 10

\* a test that also takes the limit itself for too large
ReachesLimit(r, d) == r >= ScaleLimit * d

\* line 1091: max_range > 50, for max_range = r/d
ExceedsLimit(r, d) == r > ScaleLimit * d

\* sf = 10 / max_range with max_range = r/d: v/d * sf = 10*v / r
Rescale(rows) ==
    [i \in 1..Len(rows) |->
        [rows[i] EXCEPT !.x = ScaleTarget * @, !.y = ScaleTarget * @, !.z = ScaleTarget * @]]

Normalise(t) ==
    /\ pc[t] = "normalise"
    /\ LET st == settings[t]
           d0 == IF st.invert_depth THEN InvertDepth(data[t]) ELSE data[t]
           d1 == IF st.center_coordinates THEN Center(d0) ELSE d0
           n1 == IF st.center_coordinates THEN Len(d0) * den[t] ELSE den[t]
           r  == MaxRange(d1)
       IN  IF ExceedsLimit(r, n1)
           THEN /\ data' = [data EXCEPT ![t] = Rescale(d1)]
                /\ den' = [den EXCEPT ![t] = r]
           ELSE /\ data' = [data EXCEPT ![t] = d1]
                /\ den' = [den EXCEPT ![t] = n1]
    /\ Goto(t, "filter")
    /\ UNCHANGED <<request, job_id, settings, df, threshold, df_filtered, srfvars,
                   layvars, envvars, globals>>
    /\ UNCHANGED <<default_settings, meshvars>>

(***************************************************************************)
(* Amplitude filter, lines 1098-1105.                                      *)
(***************************************************************************)
AbsAmp(rows) == [i \in 1..Len(rows) |-> Abs(rows[i].amp)]

\* Series.quantile(num/dn), linear interpolation, times dn: with sorted values
\* s[0..n-1] and (n-1)*num/dn = i + r/dn it is s[i] + (r/dn)*(s[i+1] - s[i])
QuantileTimes(vals, num, dn) ==
    LET s == Sorted(vals)
        h == (Len(s) - 1) * num
        i == h \div dn
        r == h % dn
    IN  IF r = 0 THEN dn * s[i + 1]
        ELSE dn * s[i + 1] + r * (s[i + 2] - s[i + 1])

\* a filter that also keeps the points at the threshold
AtOrAboveThreshold(rows, thr) ==
    SelectSeq(rows, LAMBDA p : PctDen * Abs(p.amp) >= thr)

\* data[data['abs_amp'] > threshold]
AboveThreshold(rows, thr) == SelectSeq(rows, LAMBDA p : PctDen * Abs(p.amp) > thr)

FilterAmplitude(t) ==
    /\ pc[t] = "filter"
    /\ LET p == settings[t].threshold_percentile
       IN  IF p < 0 \/ p > PctDen
           THEN /\ Raise(t, "ValueError")
                /\ UNCHANGED <<threshold, df_filtered, processing_jobs>>
           ELSE LET thr  == QuantileTimes(AbsAmp(data[t]), p, PctDen)
                    kept == AboveThreshold(data[t], thr)
                IN  /\ threshold' = [threshold EXCEPT ![t] = thr]
                    /\ df_filtered' = [df_filtered EXCEPT ![t] = kept]
                    /\ IF Len(kept) # 0
                       THEN /\ Goto(t, "surface")
                            /\ UNCHANGED <<exc, processing_jobs>>
                       ELSE IF HasJob(job_id[t])
                       THEN /\ processing_jobs' = SetStatus(job_id[t], "error",
                                 Msg("No points after filtering! Try lowering the percentile.", <<>>))
                            /\ Goto(t, "done")
                            /\ UNCHANGED exc
                       ELSE /\ Raise(t, "KeyError")
                            /\ UNCHANGED processing_jobs
    /\ UNCHANGED <<request, job_id, settings, df, data, den, srfvars, layvars,
                   enc_i, budget, faults, uploads, processed, log>>
    /\ UNCHANGED <<default_settings, meshvars>>

(***************************************************************************)
(* Files.  A file name is a pair (kind, number).  open(name, 'w') fails    *)
(* when the directory is missing; the environment may make open fail, or   *)
(* make a write fail after the file was created, which leaves a file that  *)
(* is not complete.                                                        *)
(***************************************************************************)
WriteOutcomes(t) ==
    IF budget[t] > 0 THEN {"ok", "open_fails", "write_fails"} ELSE {"ok"}

DirExists(id) == id \in DOMAIN processed

\* the processed folder after open(name, 'w') and the writes, with outcome w
Written(id, name, body, w) ==
    IF w = "open_fails" THEN processed
    ELSE [processed EXCEPT ![id] = Put(@, name, [complete |-> (w = "ok"), body |-> body])]

\* the environment's record of a failure it injected
Noted(t, name, w) ==
    /\ faults' = [faults EXCEPT ![t] = IF w = "ok" THEN @ ELSE Append(@, <<name, w>>)]
    /\ budget' = [budget EXCEPT ![t] = IF w = "ok" THEN @ ELSE @ - 1]

(***************************************************************************)
(* Scattered-data interpolation.  griddata(method='linear') triangulates   *)
(* the (x, y) points and raises QhullError when they do not span the       *)
(* plane: fewer than three distinct points, or all of them on one line.    *)
(* The interpolated values themselves are not computed: a grid is named by *)
(* the rows it was interpolated from.                                      *)
(***************************************************************************)
Cross(a, b, c) == (b[1] - a[1]) * (c[2] - a[2]) - (b[2] - a[2]) * (c[1] - a[1])

Degenerate(rows) ==
    LET P == {<<rows[i].x, rows[i].y>> : i \in 1..Len(rows)}
    IN  \/ Cardinality(P) < 3
        \/ LET a == CHOOSE v \in P : TRUE
               b == CHOOSE v \in P : v # a
           IN  \A c \in P : Cross(a, b, c) = 0

(***************************************************************************)
(* generate_surface_mesh, lines 103-182, as the description of the mesh it *)
(* returns: the lattice, and how the two grids were filled.                *)
(***************************************************************************)
SurfaceMesh(rows, d, res) ==
    [kind |-> "surface", resolution |-> res, den |-> d,
     x_range |-> <<ColMin(rows, "x"), ColMax(rows, "x")>>,
     y_range |-> <<ColMin(rows, "y"), ColMax(rows, "y")>>,
     grid |-> IF Degenerate(rows) THEN "mean" ELSE "griddata",
     rows |-> rows]

(***************************************************************************)
(* generate_depth_slices, lines 184-258.                                   *)
(***************************************************************************)
MinSlicePoints == 10
SliceResolution == 50

\* slice_depths = np.linspace(z_max, z_min, n + 2)[1:-1]; entry k (1..n), times n + 1
SliceDepthTimes(z_min, z_max, n, k) == (n + 1) * z_max - k * (z_max - z_min)

\* a window that takes the points at the tolerance itself
InWindowClosed(z, z_min, z_max, n, k) ==
    Abs((n + 1) * z - SliceDepthTimes(z_min, z_max, n, k)) * 2 * n
        <= (z_max - z_min) * (n + 1)

\* np.abs(z - depth) < (z_max - z_min) / (n * 2), both sides times (n + 1) * 2n
InWindow(z, z_min, z_max, n, k) ==
    Abs((n + 1) * z - SliceDepthTimes(z_min, z_max, n, k)) * 2 * n
        < (z_max - z_min) * (n + 1)

Window(rows, n, k) ==
    SelectSeq(rows, LAMBDA p : InWindow(p.z, ColMin(rows, "z"), ColMax(rows, "z"), n, k))

SliceMesh(rows, d, n, k, res) ==
    [kind |-> "slice", resolution |-> res, den |-> d,
     depth |-> <<SliceDepthTimes(ColMin(rows, "z"), ColMax(rows, "z"), n, k), n + 1>>,
     x_range |-> <<ColMin(rows, "x"), ColMax(rows, "x")>>,
     y_range |-> <<ColMin(rows, "y"), ColMax(rows, "y")>>,
     grid |-> IF Degenerate(Window(rows, n, k)) THEN "zeros" ELSE "griddata",
     rows |-> Window(rows, n, k)]

\* a loop that also skips the windows of exactly MinSlicePoints points
RECURSIVE SlicesFromAbove(_, _, _, _, _)
SlicesFromAbove(rows, d, n, k, res) ==
    IF k > n THEN <<>>
    ELSE (IF Len(Window(rows, n, k)) <= MinSlicePoints THEN <<>>
          ELSE <<SliceMesh(rows, d, n, k, res)>>)
         \o SlicesFromAbove(rows, d, n, k + 1, res)

\* the loop over slice_depths from entry k on
RECURSIVE SlicesFrom(_, _, _, _, _)
SlicesFrom(rows, d, n, k, res) ==
    IF k > n THEN <<>>
    ELSE (IF Len(Window(rows, n, k)) < MinSlicePoints THEN <<>>
          ELSE <<SliceMesh(rows, d, n, k, res)>>)
         \o SlicesFrom(rows, d, n, k + 1, res)

GenerateDepthSlices(rows, d, num, res) == SlicesFrom(rows, d, num, 1, res)

(***************************************************************************)
(* Surfaces, lines 1120-1153.                                              *)
(***************************************************************************)
\* lines 1120-1124
Surfaces(t) ==
    /\ pc[t] = "surface"
    /\ num_slices' = [num_slices EXCEPT ![t] = 0]
    /\ IF ~settings[t].generate_surface
       THEN /\ Goto(t, "bin")
            /\ UNCHANGED <<exc, processing_jobs>>
       ELSE IF HasJob(job_id[t])
       THEN /\ processing_jobs' = SetMessage(job_id[t], Msg("Generating surfaces...", <<>>))
            /\ Goto(t, "surface_mesh")
            /\ UNCHANGED exc
       ELSE /\ Raise(t, "KeyError")
            /\ UNCHANGED processing_jobs
    /\ UNCHANGED <<request, job_id, settings, tabvars, slices, slice_i, layvars,
                   enc_i, budget, faults, uploads, processed, log>>
    /\ UNCHANGED <<default_settings, meshvars>>

\* lines 1127-1134; an exception is absorbed by the handler of lines 1152-1153
AmplitudeSurface(t) ==
    /\ pc[t] = "surface_mesh"
    /\ IF ~settings[t].generate_amplitude_surface
       THEN /\ Goto(t, "slices")
            /\ UNCHANGED <<processed, budget, faults, log>>
       ELSE LET mesh == SurfaceMesh(df_filtered[t], den[t], settings[t].surface_resolution)
                warn == IF mesh.grid = "mean"
                        THEN <<Msg("Warning: Interpolation issue", <<>>)>> ELSE <<>>
            IN  IF ~DirExists(job_id[t])
                THEN /\ log' = [log EXCEPT ![t] =
                                @ \o warn \o <<Msg("Surface generation error", <<>>)>>]
                     /\ Goto(t, "bin")
                     /\ UNCHANGED <<processed, budget, faults>>
                ELSE \E w \in WriteOutcomes(t) :
                     /\ processed' = Written(job_id[t], <<"surface_amplitude.obj", 0>>, mesh, w)
                     /\ Noted(t, <<"surface_amplitude.obj", 0>>, w)
                     /\ IF w = "ok"
                        THEN /\ log' = [log EXCEPT ![t] = @ \o warn]
                             /\ Goto(t, "slices")
                        ELSE /\ log' = [log EXCEPT ![t] =
                                        @ \o warn \o <<Msg("Surface generation error", <<>>)>>]
                             /\ Goto(t, "bin")
    /\ UNCHANGED <<request, job_id, settings, tabvars, srfvars, layvars, enc_i, exc,
                   processing_jobs, uploads>>
    /\ UNCHANGED <<default_settings, meshvars>>

\* a slice step that stores the number of slices it made in the settings
DepthSlicesCounted(t) ==
    /\ pc[t] = "slices"
    /\ IF settings[t].surface_depth_slices > 0
       THEN LET sl == GenerateDepthSlices(df_filtered[t], den[t],
                          settings[t].surface_depth_slices, SliceResolution)
            IN  /\ slices' = [slices EXCEPT ![t] = sl]
                /\ num_slices' = [num_slices EXCEPT ![t] = Len(sl)]
                /\ slice_i' = [slice_i EXCEPT ![t] = 1]
                /\ settings' = [settings EXCEPT ![t].surface_depth_slices = Len(sl)]
                /\ Goto(t, "write_slice")
       ELSE /\ Goto(t, "bin")
            /\ UNCHANGED <<slices, num_slices, slice_i, settings>>
    /\ UNCHANGED <<request, job_id, tabvars, layvars, envvars, globals>>
    /\ UNCHANGED <<default_settings, meshvars>>

\* lines 1137-1142
DepthSlices(t) ==
    /\ pc[t] = "slices"
    /\ IF settings[t].surface_depth_slices > 0
       THEN LET sl == GenerateDepthSlices(df_filtered[t], den[t],
                          settings[t].surface_depth_slices, SliceResolution)
            IN  /\ slices' = [slices EXCEPT ![t] = sl]
                /\ num_slices' = [num_slices EXCEPT ![t] = Len(sl)]
                /\ slice_i' = [slice_i EXCEPT ![t] = 1]
                /\ Goto(t, "write_slice")
       ELSE /\ Goto(t, "bin")
            /\ UNCHANGED <<slices, num_slices, slice_i>>
    /\ UNCHANGED <<request, job_id, settings, tabvars, layvars, envvars, globals>>
    /\ UNCHANGED <<default_settings, meshvars>>

\* one iteration of the loop of lines 1144-1150
WriteSlice(t) ==
    /\ pc[t] = "write_slice"
    /\ IF slice_i[t] > Len(slices[t])
       THEN /\ Goto(t, "bin")
            /\ UNCHANGED <<slice_i, processed, budget, faults, log>>
       ELSE IF ~DirExists(job_id[t])
       THEN /\ log' = Say(t, Msg("Surface generation error", <<>>))
            /\ Goto(t, "bin")
            /\ UNCHANGED <<slice_i, processed, budget, faults>>
       ELSE \E w \in WriteOutcomes(t) :
            /\ processed' = Written(job_id[t], <<"slice", slice_i[t]>>, slices[t][slice_i[t]], w)
            /\ Noted(t, <<"slice", slice_i[t]>>, w)
            /\ IF w = "ok"
               THEN /\ slice_i' = [slice_i EXCEPT ![t] = @ + 1]
                    /\ UNCHANGED <<pc, log>>
               ELSE /\ log' = Say(t, Msg("Surface generation error", <<>>))
                    /\ Goto(t, "bin")
                    /\ UNCHANGED slice_i
    /\ UNCHANGED <<request, job_id, settings, tabvars, num_slices, slices, layvars,
                   enc_i, exc, processing_jobs, uploads>>
    /\ UNCHANGED <<default_settings, meshvars>>

(***************************************************************************)
(* Binning, lines 1157-1163.  A label is a bin number from 0, or NoLabel   *)
(* (pandas' NaN) for a value that falls in no bin.                         *)
(***************************************************************************)
NoLabel == -1

\* Series.quantile(k/q) * q for k = 0..q: the bin edges of pd.qcut, times q
QcutEdges(vals, q) == [k \in 1..(q + 1) |-> QuantileTimes(vals, k - 1, q)]

\* algos.unique on a non-decreasing sequence
RECURSIVE Unique(_)
Unique(s) ==
    IF Len(s) <= 1 THEN s
    ELSE IF s[1] = s[2] THEN Unique(Tail(s))
    ELSE <<s[1]>> \o Unique(Tail(s))

\* _bins_to_cuts with duplicates='drop': duplicate edges are dropped unless there
\* are just two edges
DropDuplicates(bins) ==
    IF Len(Unique(bins)) < Len(bins) /\ Len(bins) # 2 THEN Unique(bins) ELSE bins

\* bins.searchsorted(v, side='left'): how many edges are below v
SearchSorted(bins, v) == Cardinality({j \in 1..Len(bins) : bins[j] < v})

\* labels=False: ids - 1, NaN where ids is 0 or len(bins)
BinLabel(bins, v, include_lowest) ==
    LET i0  == SearchSorted(bins, v)
        ids == IF include_lowest /\ v = bins[1] THEN 1 ELSE i0
    IN  IF ids = 0 \/ ids = Len(bins) THEN NoLabel ELSE ids - 1

\* pd.qcut(vals, q, labels=False, duplicates='drop')
Qcut(vals, q) ==
    LET bins == DropDuplicates(QcutEdges(vals, q))
    IN  [i \in 1..Len(vals) |-> BinLabel(bins, q * vals[i], TRUE)]

\* pd.cut(vals, bins=nb, labels=False): nb equal-width bins over [mn, mx], the
\* lowest edge moved down by 0.1% of the range; edges and values are times nb, and
\* the moved edge is below every value.  With mn = mx the edges run over
\* [mn - 0.001*mn, mn + 0.001*mn], and edge k is below mn iff 2k < nb.
CutLabel(v, mn, mx, nb) ==
    IF mn = mx
    THEN Cardinality({k \in 0..nb : 2 * k < nb}) - 1
    ELSE Cardinality({k \in 1..nb : nb * mn + k * (mx - mn) < nb * v})

Cut(vals, nb) ==
    LET mn == SetMin(Range(vals))
        mx == SetMax(Range(vals))
    IN  [i \in 1..Len(vals) |-> CutLabel(vals[i], mn, mx, nb)]

\* Series.nunique(): NaN is not counted
NUnique(labels) == Cardinality(Range(labels) \ {NoLabel})

\* what the try block of lines 1157-1161 may do: the environment can make qcut raise
QcutOutcomes(t) == IF budget[t] > 0 THEN {"ok", "raises"} ELSE {"ok"}

CreateLayers(t) ==
    /\ pc[t] = "bin"
    /\ IF ~HasJob(job_id[t])
       THEN /\ Raise(t, "KeyError")
            /\ UNCHANGED <<processing_jobs, layvars, budget, faults>>
       ELSE \E o \in QcutOutcomes(t) :
            LET vals   == AbsAmp(df_filtered[t])
                q      == settings[t].iso_bins
                labels == IF o = "ok" THEN Qcut(vals, q) ELSE Cut(vals, q)
            IN  /\ processing_jobs' =
                       SetMessage(job_id[t], Msg("Creating amplitude layers...", <<>>))
                /\ Noted(t, <<"qcut", 0>>, o)
                /\ iso_range' = [iso_range EXCEPT ![t] = labels]
                /\ actual_bins' = [actual_bins EXCEPT ![t] = NUnique(labels)]
                /\ ply_files' = [ply_files EXCEPT ![t] = <<>>]
                /\ amplitude_ranges' = [amplitude_ranges EXCEPT ![t] = <<>>]
                /\ layer_index' = [layer_index EXCEPT ![t] = <<>>]
                /\ total_output_points' = [total_output_points EXCEPT ![t] = 0]
                /\ iso_level' = [iso_level EXCEPT ![t] = 0]
                /\ Goto(t, "layer")
                /\ UNCHANGED exc
    /\ UNCHANGED <<request, job_id, settings, tabvars, srfvars, enc_i, uploads,
                   processed, log>>
    /\ UNCHANGED <<default_settings, meshvars>>

(***************************************************************************)
(* Layers, lines 1170-1197.                                                *)
(***************************************************************************)
\* np.random.RandomState(42).permutation(n) for n = 1..12 (MT19937 seeded with 42,
\* Fisher-Yates from the last position down), positions from 0
Perm42 ==
    << <<0>>,
       <<1, 0>>,
       <<0, 1, 2>>,
       <<1, 3, 0, 2>>,
       <<1, 4, 2, 0, 3>>,
       <<0, 1, 5, 2, 4, 3>>,
       <<0, 1, 5, 2, 4, 3, 6>>,
       <<1, 5, 0, 7, 2, 4, 3, 6>>,
       <<7, 1, 5, 0, 8, 2, 4, 3, 6>>,
       <<8, 1, 5, 0, 7, 2, 9, 4, 3, 6>>,
       <<5, 0, 9, 10, 2, 1, 8, 4, 7, 3, 6>>,
       <<10, 9, 0, 8, 5, 2, 1, 11, 4, 7, 3, 6>> >>

\* a sampler that draws with replacement: the first position of the permutation, n times
SampleWithReplacement(len, n) == {[k \in 1..n |-> Perm42[len][1] + 1]}

\* a sampler without a fixed seed: the first n or the last n positions
SampleUnseeded(len, n) == {[k \in 1..n |-> k], [k \in 1..n |-> len - n + k]}

\* DataFrame.sample(n=n, random_state=42) of a frame of len rows: the positions
\* RandomState(42).choice(len, size=n, replace=False) = permutation(len)[:n] can return
SampleChoices(len, n) == {[k \in 1..n |-> Perm42[len][k] + 1]}

\* df_filtered[df_filtered['iso_range'] == iso_level]: the positions, in order
RECURSIVE LevelFrom(_, _, _)
LevelFrom(labels, level, i) ==
    IF i > Len(labels) THEN <<>>
    ELSE (IF labels[i] = level THEN <<i>> ELSE <<>>) \o LevelFrom(labels, level, i + 1)

LevelRows(labels, level) == LevelFrom(labels, level, 1)

\* create_iso_colormap
color_palette ==
    << <<255, 0, 0>>, <<255, 165, 0>>, <<255, 255, 0>>, <<0, 255, 0>>, <<0, 0, 255>> >>

create_iso_colormap(level) == color_palette[(level % Len(color_palette)) + 1]

\* what write_ply_fast writes: the header's vertex count, then one line per point
PlyFile(rows, d, color) ==
    [kind |-> "ply", vertex |-> Len(rows), den |-> d, color |-> color,
     points |-> [i \in 1..Len(rows) |-> <<rows[i].x, rows[i].y, rows[i].z>>]]

\* one iteration of the loop over range(actual_bins)
Layer(t) ==
    /\ pc[t] = "layer"
    /\ iso_level[t] < actual_bins[t]
    /\ LET all == LevelRows(iso_range[t], iso_level[t])
           cap == settings[t].max_points_per_layer
       IN  IF Len(all) = 0
           THEN /\ iso_level' = [iso_level EXCEPT ![t] = @ + 1]
                /\ UNCHANGED <<pc, exc, budget, faults, processed, ply_files, amplitude_ranges,
                               layer_index, total_output_points>>
           ELSE \E pos \in (IF Len(all) > cap THEN SampleChoices(Len(all), cap)
                            ELSE {[k \in 1..Len(all) |-> k]}) :
                LET idx  == [k \in 1..Len(pos) |-> all[pos[k]]]
                    rows == [k \in 1..Len(idx) |-> df_filtered[t][idx[k]]]
                    name == <<"layer", iso_level[t] + 1>>
                    body == PlyFile(rows, den[t], create_iso_colormap(iso_level[t]))
                IN  IF ~DirExists(job_id[t])
                    THEN /\ Raise(t, "FileNotFoundError")
                         /\ UNCHANGED <<budget, faults, processed, iso_level, ply_files,
                                        amplitude_ranges, layer_index, total_output_points>>
                    ELSE \E w \in WriteOutcomes(t) :
                         /\ processed' = Written(job_id[t], name, body, w)
                         /\ Noted(t, name, w)
                         /\ IF w = "ok"
                            THEN /\ ply_files' = [ply_files EXCEPT ![t] = Append(@, name)]
                                 /\ amplitude_ranges' = [amplitude_ranges EXCEPT ![t] =
                                        Append(@, <<SetMin(Range(AbsAmp(rows))),
                                                    SetMax(Range(AbsAmp(rows)))>>)]
                                 /\ layer_index' = [layer_index EXCEPT ![t] = Append(@, idx)]
                                 /\ total_output_points' =
                                        [total_output_points EXCEPT ![t] = @ + Len(rows)]
                                 /\ iso_level' = [iso_level EXCEPT ![t] = @ + 1]
                                 /\ UNCHANGED <<pc, exc>>
                            ELSE /\ Raise(t, "OSError")
                                 /\ UNCHANGED <<iso_level, ply_files, amplitude_ranges,
                                                layer_index, total_output_points>>
    /\ UNCHANGED <<request, job_id, settings, tabvars, srfvars, iso_range, actual_bins,
                   enc_i, processing_jobs, uploads, log>>
    /\ UNCHANGED <<default_settings, meshvars>>

(***************************************************************************)
(* Viewer and summary, lines 1200-1249.                                    *)
(***************************************************************************)
\* lines 1217-1221
TotalFiles(t) ==
    Len(ply_files[t])
      + (IF settings[t].generate_surface THEN 1 ELSE 0)
      + (IF num_slices[t] > 0 THEN num_slices[t] ELSE 0)

\* what create_vr_viewer puts into index.html
ViewerFile(t) ==
    [kind |-> "viewer", layers |-> ply_files[t],
     has_surface |-> settings[t].generate_surface,
     num_slices |-> num_slices[t], total_files |-> TotalFiles(t)]

\* info_data, lines 1232-1240
InfoFile(t) ==
    [kind |-> "info", total_points |-> total_output_points[t],
     layers |-> actual_bins[t], has_surface |-> settings[t].generate_surface,
     num_slices |-> num_slices[t], settings |-> settings[t]]

\* lines 1200-1229, after the layer loop has ended
CreateViewer(t) ==
    /\ pc[t] = "layer"
    /\ iso_level[t] >= actual_bins[t]
    /\ IF ~HasJob(job_id[t])
       THEN /\ Raise(t, "KeyError")
            /\ UNCHANGED <<processing_jobs, processed, budget, faults>>
       ELSE /\ processing_jobs' = SetMessage(job_id[t], Msg("Creating VR viewer...", <<>>))
            /\ IF ~DirExists(job_id[t])
               THEN /\ Raise(t, "FileNotFoundError")
                    /\ UNCHANGED <<processed, budget, faults>>
               ELSE \E w \in WriteOutcomes(t) :
                    /\ processed' = Written(job_id[t], <<"index.html", 0>>, ViewerFile(t), w)
                    /\ Noted(t, <<"index.html", 0>>, w)
                    /\ IF w = "ok"
                       THEN Goto(t, "info") /\ UNCHANGED exc
                       ELSE Raise(t, "OSError")
    /\ UNCHANGED <<request, job_id, settings, locals, enc_i, uploads, log>>
    /\ UNCHANGED <<default_settings, meshvars>>

\* lines 1232-1242
SaveInfo(t) ==
    /\ pc[t] = "info"
    /\ IF ~DirExists(job_id[t])
       THEN /\ Raise(t, "FileNotFoundError")
            /\ UNCHANGED <<processed, budget, faults>>
       ELSE \E w \in WriteOutcomes(t) :
            /\ processed' = Written(job_id[t], <<"info.json", 0>>, InfoFile(t), w)
            /\ Noted(t, <<"info.json", 0>>, w)
            /\ IF w = "ok"
               THEN Goto(t, "complete") /\ UNCHANGED exc
               ELSE Raise(t, "OSError")
    /\ UNCHANGED <<request, job_id, settings, locals, enc_i, processing_jobs, uploads, log>>
    /\ UNCHANGED <<default_settings, meshvars>>

\* lines 1244-1249
Complete(t) ==
    /\ pc[t] = "complete"
    /\ IF HasJob(job_id[t])
       THEN /\ processing_jobs' = [processing_jobs EXCEPT ![job_id[t]] =
                   [status |-> "completed", message |-> Msg("Processing complete!", <<>>),
                    settings |-> @.settings, output_dir |-> job_id[t],
                    total_points |-> total_output_points[t]]]
            /\ log' = Say(t, Msg("Job completed successfully", <<>>))
            /\ Goto(t, "done")
            /\ UNCHANGED exc
       ELSE /\ Raise(t, "KeyError")
            /\ UNCHANGED <<processing_jobs, log>>
    /\ UNCHANGED <<request, job_id, settings, locals, enc_i, budget, faults, uploads, processed>>
    /\ UNCHANGED <<default_settings, meshvars>>

\* the handler of lines 1251-1256; a KeyError in the handler ends the thread
Except(t) ==
    /\ pc[t] = "except"
    /\ log' = Say(t, Msg("Error processing job", <<>>))
    /\ IF HasJob(job_id[t])
       THEN /\ processing_jobs' = SetStatus(job_id[t], "error", Msg("Error", <<>>))
            /\ Goto(t, "done")
       ELSE /\ Goto(t, "crashed")
            /\ UNCHANGED processing_jobs
    /\ UNCHANGED <<request, job_id, settings, locals, envvars, uploads, processed>>
    /\ UNCHANGED <<default_settings, meshvars>>

(***************************************************************************)
(* One run: the upload handler, then the worker thread.                    *)
(***************************************************************************)
Run(t) ==
    \/ Upload(t)
    \/ Start(t)
    \/ MakeOutputDir(t)
    \/ TryEncoding(t)
    \/ ReadIgnoringErrors(t)
    \/ CheckColumns(t)
    \/ Coerce(t)
    \/ Normalise(t)
    \/ FilterAmplitude(t)
    \/ Surfaces(t)
    \/ AmplitudeSurface(t)
    \/ DepthSlices(t)
    \/ WriteSlice(t)
    \/ CreateLayers(t)
    \/ Layer(t)
    \/ CreateViewer(t)
    \/ SaveInfo(t)
    \/ Complete(t)
    \/ Except(t)

Next == \E t \in Threads : Run(t)

(***************************************************************************)
(* cleanup_job, lines 1372-1400: a client asks to forget a job.  For a job *)
(* of the registry the uploaded file, the output directory and the entry   *)
(* are removed; for any other id nothing changes.  The handler runs in a   *)
(* request thread of its own, at any moment of a run.                      *)
(***************************************************************************)
Drop(d, k) == [x \in DOMAIN d \ {k} |-> d[x]]

Cleanup(id) ==
    /\ id \in DOMAIN processing_jobs
    /\ uploads' = Drop(uploads, id)
    /\ processed' = Drop(processed, id)
    /\ processing_jobs' = Drop(processing_jobs, id)
    /\ UNCHANGED <<runvars, locals, envvars, log>>
    /\ UNCHANGED <<default_settings, meshvars>>

\* view_result, lines 1323-1335: what GET /view/<id> answers; it changes nothing
view_result(id) ==
    IF ~DirExists(id) THEN "Job not found"
    ELSE IF <<"index.html", 0>> \notin DOMAIN processed[id] THEN "Viewer not found"
    ELSE "index.html"

NextLive == (\E t \in Threads : Run(t)) \/ (\E id \in JobIds : Cleanup(id))

(***************************************************************************)
(* Inputs.                                                                 *)
(***************************************************************************)
Row(x, y, z, a) == <<Num(x), Num(y), Num(z), Num(a)>>

\* every sequence over S of length at most n
SeqsUpTo(S, n) == UNION {[1..k -> S] : k \in 0..n}

Utf8File(table) ==
    [table |-> table, reads |-> [i \in 1..Len(encodings) |-> "ok"], lossy |-> "ok"]

Table4(rows) == [ncols |-> 4, rows |-> rows]

ColumnsForm ==
    [col_idx_x |-> 0, col_idx_y |-> 1, col_idx_z |-> 2, col_idx_amplitude |-> 3]

\* tables for the filter and the binning: amplitudes vary, some cells are no numbers
BinRows ==
    {Row(0, 0, 1, a) : a \in 1..(MaxAmp - 1)}
        \cup {Row(0, 0, 1, -MaxAmp), <<Num(0), Num(0), Num(1), Text>>,
              <<Text, Num(0), Num(1), Num(1)>>}

BigCap == 500000

BinForms ==
    {ColumnsForm @@
     [threshold_percentile |-> p, iso_bins |-> q, max_points_per_layer |-> cap,
      generate_surface |-> FALSE] :
        p \in {0, 50}, q \in 1..MaxBins, cap \in {1, BigCap}}

\* the tables of at most MaxRows rows in which only the first row may hold a cell that
\* is no number
BinTables ==
    {Table4(rows) : rows \in
        {rs \in SeqsUpTo(BinRows, MaxRows) :
            \A i \in 2..Len(rs) : \A c \in 1..4 : rs[i][c].kind = "number"}}

BinRequests ==
    {[uuid |-> "a1b2c3d4", file |-> Utf8File(tb), form |-> f] :
        tb \in BinTables, f \in BinForms}

\* tables for the sampling: one row at the threshold, MaxRows + 1 rows above it with
\* amplitudes that do not decrease
SampleForms ==
    {ColumnsForm @@
     [threshold_percentile |-> 0, iso_bins |-> q, max_points_per_layer |-> cap,
      generate_surface |-> FALSE] :
        q \in 1..2, cap \in 2..MaxRows}
        \cup {ColumnsForm @@ [threshold_percentile |-> 0, generate_surface |-> FALSE]}

SampleRequests ==
    {[uuid |-> "a1b2c3d4",
      file |-> Utf8File(Table4(<<Row(0, 0, 1, 1)>> \o [i \in 1..(MaxRows + 1) |-> Row(i, 0, i, amps[i])])),
      form |-> f] :
        amps \in {a \in [1..(MaxRows + 1) -> 2..(MaxAmp + 1)] :
                    \A i \in 1..MaxRows : a[i] <= a[i + 1]},
        f \in SampleForms}

\* tables for the depth slices: one row at the threshold, and above it one row at
\* depth 1, c2 rows at depth 2, c3 rows at depth 3 and one row at depth 4, on a
\* 2 x 2 patch of (x, y)
MaxSlices == 2

SliceRow(i, z) == Row(i % 2, (i \div 2) % 2, z, 2)

SliceTable(c2, c3) ==
    Table4(<<Row(0, 0, 2, 1), Row(0, 0, 1, 2)>> \o [i \in 1..c2 |-> SliceRow(i, 2)]
               \o [i \in 1..c3 |-> SliceRow(i, 3)] \o <<Row(0, 0, 4, 2)>>)

SliceCounts == {0, 9, 10}

SliceForms ==
    {ColumnsForm @@
     [threshold_percentile |-> 0, iso_bins |-> 1, generate_surface |-> g,
      generate_amplitude_surface |-> a, surface_resolution |-> 2,
      surface_depth_slices |-> n] :
        g \in BOOLEAN, a \in BOOLEAN, n \in 0..MaxSlices}

SliceRequests ==
    {[uuid |-> "a1b2c3d4", file |-> Utf8File(SliceTable(c2, c3)), form |-> f] :
        c2 \in SliceCounts, c3 \in SliceCounts, f \in SliceForms}

\* a slice table whose window at depth 2 is full and lies on the line y = 0
LineTable ==
    Table4(<<Row(0, 0, 2, 1), Row(0, 0, 1, 2)>>
               \o [i \in 1..MinSlicePoints |-> Row(i % 2, 0, 2, 2)] \o <<Row(0, 0, 4, 2)>>)

LineRequests ==
    {[uuid |-> "a1b2c3d4", file |-> Utf8File(LineTable),
      form |-> ColumnsForm @@
               [threshold_percentile |-> 0, iso_bins |-> 1, generate_surface |-> TRUE,
                generate_amplitude_surface |-> TRUE, surface_resolution |-> 2,
                surface_depth_slices |-> n]] :
        n \in 1..MaxSlices}

\* tables of four and of five columns, column indices at and beyond the last column,
\* and the default indices (0, 1, 7, 8)
ColumnTables ==
    {Table4(<<Row(0, 0, 1, 1), Row(0, 0, 1, 2)>>),
     [ncols |-> 5, rows |-> << <<Num(0), Num(0), Num(1), Num(1), Num(2)>>,
                               <<Num(0), Num(0), Num(1), Num(2), Text>> >>]}

ColumnForms ==
    {[col_idx_x |-> 0, col_idx_y |-> 1, col_idx_z |-> cz, col_idx_amplitude |-> ca,
      threshold_percentile |-> 0, generate_surface |-> FALSE] :
        cz \in {2, 4}, ca \in {3, 4, 5}}
        \cup {[threshold_percentile |-> 0, generate_surface |-> FALSE]}

ColumnRequests ==
    {[uuid |-> "a1b2c3d4", file |-> Utf8File(tb), form |-> f] :
        tb \in ColumnTables, f \in ColumnForms}

\* files in other encodings: latin1 text that is no utf-8, a malformed table that no
\* encoding parses, one that parses only with the decoding errors ignored, a file
\* with no columns
EncodedFiles ==
    LET tb == Table4(<<Row(0, 0, 1, 1), Row(0, 0, 1, 2)>>)
    IN  {[table |-> tb, lossy |-> "ok",
          reads |-> <<"UnicodeDecodeError", "ok", "ok", "ok", "UnicodeDecodeError",
                      "UnicodeDecodeError">>],
         [table |-> tb, lossy |-> "ParserError",
          reads |-> <<"ParserError", "ParserError", "ParserError", "ParserError",
                      "UnicodeDecodeError", "ParserError">>],
         [table |-> tb, lossy |-> "ok",
          reads |-> <<"UnicodeDecodeError", "ParserError", "ParserError", "ParserError",
                      "UnicodeDecodeError", "UnicodeDecodeError">>],
         [table |-> tb, lossy |-> "EmptyDataError",
          reads |-> <<"EmptyDataError", "EmptyDataError", "EmptyDataError",
                      "EmptyDataError", "EmptyDataError", "EmptyDataError">>]}

EncodingRequests ==
    {[uuid |-> "a1b2c3d4", file |-> fl,
      form |-> ColumnsForm @@ [threshold_percentile |-> 0, generate_surface |-> FALSE]] :
        fl \in EncodedFiles}

\* tables for the normalisation: three points whose horizontal extents lie below, at
\* and above the scaling limit, depths of both signs, each flag set or not
NormTables ==
    {Table4(<<Row(0, 0, z1, 1), Row(w, h, 1, 2), Row(1, 0, 0, 2)>>) :
        w \in (ScaleLimit - 1)..(ScaleLimit + 1), h \in {0, ScaleLimit + 2}, z1 \in {-2, 3}}

NormForms ==
    {ColumnsForm @@
     [threshold_percentile |-> 0, iso_bins |-> 1, generate_surface |-> FALSE,
      invert_depth |-> inv, center_coordinates |-> cen] :
        inv \in BOOLEAN, cen \in BOOLEAN}

NormRequests ==
    {[uuid |-> "a1b2c3d4", file |-> Utf8File(tb), form |-> f] :
        tb \in NormTables, f \in NormForms}

Requests ==
    BinRequests \cup SampleRequests \cup SliceRequests \cup ColumnRequests
        \cup EncodingRequests \cup NormRequests \cup LineRequests

(***************************************************************************)
(* The mesh builders: the loops of generate_surface_mesh (lines 138-175)   *)
(* and of generate_depth_slices (lines 220-247) over the smoothed grids.   *)
(* A colour component and a normalised amplitude are fractions (num, den); *)
(* a lattice coordinate is a numerator over resolution - 1.                *)
(***************************************************************************)
Nodes(n) == (0..(n - 1)) \X (0..(n - 1))

GridMin(g) == SetMin({g[nd] : nd \in DOMAIN g})
GridMax(g) == SetMax({g[nd] : nd \in DOMAIN g})

\* lines 143-148: (amp_grid - amp_min) / (amp_max - amp_min), or zeros
SurfaceAmpNorm(g, nd) ==
    IF GridMax(g) > GridMin(g)
    THEN <<g[nd] - GridMin(g), GridMax(g) - GridMin(g)>>
    ELSE <<0, 1>>

\* lines 220-225: amp_grid / amp_max, or zeros
SliceAmpNorm(g, nd) ==
    IF GridMax(g) > 0 THEN <<g[nd], GridMax(g)>> ELSE <<0, 1>>

\* lines 154-159: r = amp_val, g = 0.2, b = 1.0 - amp_val
SurfaceColor(a) == << a, <<1, 5>>, <<a[2] - a[1], a[2]>> >>

\* lines 235-239: r = amp_val, g = 0.3 * (1 - amp_val), b = 1.0 - amp_val
SliceColor(a) == << a, <<3 * (a[2] - a[1]), 10 * a[2]>>, <<a[2] - a[1], a[2]>> >>

\* np.linspace(lo, hi, n)[k], times n - 1
LinspaceTimes(range, n, k) == range[1] * (n - 1) + k * (range[2] - range[1])

\* lines 152 and 233: [xi_grid[i, j], yi_grid[i, j], z]; np.meshgrid(xi, yi) puts xi[j]
\* and yi[i] at [i, j]
Vertex(nd) ==
    <<LinspaceTimes(x_range, resolution, nd[2]),
      LinspaceTimes(y_range, resolution, nd[1]),
      IF mesh_kind = "surface" THEN zi_grid[nd] ELSE depth>>

VertexColor(nd) ==
    IF mesh_kind = "surface"
    THEN SurfaceColor(SurfaceAmpNorm(amp_grid, nd))
    ELSE SliceColor(SliceAmpNorm(amp_grid, nd))

\* a cell that gets its first triangle only
CellFace(idx, res) == << <<idx, idx + 1, idx + res>> >>

\* a cell whose second triangle leaves the row below
CellFacesBeyond(idx, res) ==
    << <<idx, idx + 1, idx + res>>, <<idx + 1, idx + res + 2, idx + res>> >>

\* lines 167-173 and 244-247: the two triangles of the cell at idx
CellFaces(idx, res) ==
    << <<idx, idx + 1, idx + res>>, <<idx + 1, idx + res + 1, idx + res>> >>

\* for i in range(n): for j in range(n): the step from (i, j)
NextInRange(nd, n) == IF nd[2] + 1 < n THEN <<nd[1], nd[2] + 1>> ELSE <<nd[1] + 1, 0>>

pipevars == <<runvars, tabvars, srfvars, layvars, envvars, globals, default_settings>>
meshinputs == <<mesh_kind, resolution, x_range, y_range, zi_grid, depth, amp_grid>>
objvars == <<obj_lines, obj_i>>

\* one iteration of the loops of lines 150-159 and 231-239
AppendVertex ==
    /\ mesh_pc = "vertices"
    /\ node[1] < resolution
    /\ vertices' = Append(vertices, Vertex(node))
    /\ vertex_colors' = Append(vertex_colors, VertexColor(node))
    /\ node' = NextInRange(node, resolution)
    /\ UNCHANGED <<mesh_pc, faces, meshinputs, pipevars, objvars>>

\* the vertex loop has ended: lines 161-165 and 241-242
StartFaces ==
    /\ mesh_pc = "vertices"
    /\ node[1] >= resolution
    /\ mesh_pc' = "faces"
    /\ faces' = <<>>
    /\ node' = <<0, 0>>
    /\ UNCHANGED <<vertices, vertex_colors, meshinputs, pipevars, objvars>>

\* one iteration of the loops of lines 166-173 and 243-247
AppendFaces ==
    /\ mesh_pc = "faces"
    /\ node[1] < resolution - 1
    /\ faces' = faces \o CellFaces(node[1] * resolution + node[2], resolution)
    /\ node' = NextInRange(node, resolution - 1)
    /\ UNCHANGED <<mesh_pc, vertices, vertex_colors, meshinputs, pipevars, objvars>>

\* the face loop has ended: lines 175-182 and 249-254
ReturnMesh ==
    /\ mesh_pc = "faces"
    /\ node[1] >= resolution - 1
    /\ mesh_pc' = "returned"
    /\ UNCHANGED <<node, vertices, vertex_colors, faces, meshinputs, pipevars, objvars>>

(***************************************************************************)
(* write_obj_mesh, lines 86-101.  A line of the file is its tag and the    *)
(* numbers printed after it: a coordinate with six decimals (as millionths)*)
(* and a colour component with four (as ten-thousandths).  Both callers    *)
(* pass vertex_colors, so the branch of line 97 is not taken.              *)
(***************************************************************************)
CoordDigits == 6
ColorDigits == 4

\* format(num/dn, '.{digits}f') as an integer count of 10^-digits: the nearest one,
\* a tie going to the even neighbour
Fixed(num, dn, digits) ==
    LET scaled == num * 10^digits
        q == scaled \div dn
        r == scaled % dn
    IN  IF 2 * r < dn THEN q
        ELSE IF 2 * r > dn THEN q + 1
        ELSE IF q % 2 = 0 THEN q ELSE q + 1

Line(tag, nums) == [tag |-> tag, nums |-> nums]

\* line 89
HeaderLine(vs, fs) == Line("#", <<Len(vs), Len(fs)>>)

\* line 95: the lattice coordinates are numerators over res - 1, z is a whole number
VertexLine(v, c, res) ==
    Line("v", <<Fixed(v[1], res - 1, CoordDigits), Fixed(v[2], res - 1, CoordDigits),
                Fixed(v[3], 1, CoordDigits),
                Fixed(c[1][1], c[1][2], ColorDigits), Fixed(c[2][1], c[2][2], ColorDigits),
                Fixed(c[3][1], c[3][2], ColorDigits)>>)

\* a face line that prints the indices as the builder counts them, from 0
FaceLineFromZero(face) == Line("f", <<face[1], face[2], face[3]>>)

\* line 101
FaceLine(face) == Line("f", <<face[1] + 1, face[2] + 1, face[3] + 1>>)

\* lines 88-89: the file is opened and the header written
OpenObj ==
    /\ mesh_pc = "returned"
    /\ mesh_pc' = "write_v"
    /\ obj_lines' = <<HeaderLine(vertices, faces)>>
    /\ obj_i' = 0
    /\ UNCHANGED <<node, vertices, vertex_colors, faces, meshinputs, pipevars>>

\* one iteration of the loop of lines 92-97
WriteVertexLine ==
    /\ mesh_pc = "write_v"
    /\ obj_i < Len(vertices)
    /\ obj_lines' = Append(obj_lines,
                           VertexLine(vertices[obj_i + 1], vertex_colors[obj_i + 1], resolution))
    /\ obj_i' = obj_i + 1
    /\ UNCHANGED <<mesh_pc, node, vertices, vertex_colors, faces, meshinputs, pipevars>>

\* the vertex loop has ended: line 100
StartFaceLines ==
    /\ mesh_pc = "write_v"
    /\ obj_i >= Len(vertices)
    /\ mesh_pc' = "write_f"
    /\ obj_i' = 0
    /\ UNCHANGED <<obj_lines, node, vertices, vertex_colors, faces, meshinputs, pipevars>>

\* one iteration of the loop of lines 100-101
WriteFaceLine ==
    /\ mesh_pc = "write_f"
    /\ obj_i < Len(faces)
    /\ obj_lines' = Append(obj_lines, FaceLine(faces[obj_i + 1]))
    /\ obj_i' = obj_i + 1
    /\ UNCHANGED <<mesh_pc, node, vertices, vertex_colors, faces, meshinputs, pipevars>>

\* the face loop has ended and the with block closes the file
CloseObj ==
    /\ mesh_pc = "write_f"
    /\ obj_i >= Len(faces)
    /\ mesh_pc' = "written"
    /\ UNCHANGED <<obj_lines, obj_i, node, vertices, vertex_colors, faces, meshinputs,
                   pipevars>>

NextMesh ==
    \/ AppendVertex \/ StartFaces \/ AppendFaces \/ ReturnMesh
    \/ OpenObj \/ WriteVertexLine \/ StartFaceLines \/ WriteFaceLine \/ CloseObj

\* no mesh is being built
MeshIdle ==
    /\ mesh_pc = "idle"
    /\ mesh_kind = "surface"
    /\ resolution = 0
    /\ x_range = <<0, 0>>
    /\ y_range = <<0, 0>>
    /\ zi_grid = <<>>
    /\ depth = 0
    /\ amp_grid = <<>>
    /\ node = <<0, 0>>
    /\ vertices = <<>>
    /\ vertex_colors = <<>>
    /\ faces = <<>>
    /\ obj_lines = <<>>
    /\ obj_i = 0

MaxRes == 3         \* largest resolution of a mesh
MaxGridAmp == 2     \* largest value of a smoothed grid

\* the grids a * i + b * j + c, folded into 0..MaxGridAmp
Grid(n, a, b, c) == [nd \in Nodes(n) |-> (a * nd[1] + b * nd[2] + c) % (MaxGridAmp + 1)]

Grids(n) == {Grid(n, a, b, c) : a \in 0..MaxGridAmp, b \in 0..MaxGridAmp, c \in 0..MaxGridAmp}

\* a builder entered with its grids interpolated and smoothed
MeshStarted ==
    /\ mesh_pc = "vertices"
    /\ mesh_kind \in {"surface", "slice"}
    /\ resolution \in 2..MaxRes
    /\ x_range \in {<<0, 0>>, <<-1, 1>>}
    /\ y_range = <<-1, 1>>
    /\ amp_grid \in Grids(resolution)
    /\ \E flat \in BOOLEAN :
           IF mesh_kind = "surface"
           THEN /\ zi_grid = (IF flat THEN Grid(resolution, 0, 0, 0)
                              ELSE Grid(resolution, 1, 1, 0))
                /\ depth = 0
           ELSE /\ zi_grid = Grid(resolution, 0, 0, 0)
                /\ depth = (IF flat THEN 0 ELSE -1)
    /\ node = <<0, 0>>
    /\ vertices = <<>>
    /\ vertex_colors = <<>>
    /\ faces = <<>>
    /\ obj_lines = <<>>
    /\ obj_i = 0

\* no run has started, the folders are empty
Fresh ==
    /\ pc = [t \in Threads |-> "idle"]
    /\ job_id = [t \in Threads |-> ""]
    /\ settings = [t \in Threads |-> DEFAULT_SETTINGS]
    /\ df = [t \in Threads |-> NoTable]
    /\ data = [t \in Threads |-> <<>>]
    /\ den = [t \in Threads |-> 1]
    /\ threshold = [t \in Threads |-> 0]
    /\ df_filtered = [t \in Threads |-> <<>>]
    /\ num_slices = [t \in Threads |-> 0]
    /\ slices = [t \in Threads |-> <<>>]
    /\ slice_i = [t \in Threads |-> 0]
    /\ iso_range = [t \in Threads |-> <<>>]
    /\ actual_bins = [t \in Threads |-> 0]
    /\ iso_level = [t \in Threads |-> 0]
    /\ ply_files = [t \in Threads |-> <<>>]
    /\ total_output_points = [t \in Threads |-> 0]
    /\ amplitude_ranges = [t \in Threads |-> <<>>]
    /\ layer_index = [t \in Threads |-> <<>>]
    /\ enc_i = [t \in Threads |-> 0]
    /\ exc = [t \in Threads |-> ""]
    /\ faults = [t \in Threads |-> <<>>]
    /\ processing_jobs = <<>>
    /\ uploads = <<>>
    /\ processed = <<>>
    /\ log = [t \in Threads |-> <<>>]
    /\ default_settings = DEFAULT_SETTINGS

\* the requests of the clients, one per thread, and the environment's failures
Sent(reqs, b) ==
    /\ request = reqs
    /\ budget = [t \in Threads |-> b]

OneRequest(r) == [t \in Threads |-> IF t = 1 THEN <<r>> ELSE <<>>]

MaxFaults == 1      \* environment failures injected into one run

Init ==
    /\ Fresh
    /\ MeshIdle
    /\ \E r \in Requests, b \in 0..MaxFaults : Sent(OneRequest(r), b)

Spec == Init /\ [][Next]_vars

\* sampling tables whose amplitudes step from 2 to 3 after row k, one or two bins,
\* layers of at most two points
StepRequests ==
    {[uuid |-> "a1b2c3d4",
      file |-> Utf8File(Table4(<<Row(0, 0, 1, 1)>>
                  \o [i \in 1..(MaxRows + 1) |-> Row(i, 0, i, IF i <= k THEN 2 ELSE 3)])),
      form |-> ColumnsForm @@
               [threshold_percentile |-> 0, iso_bins |-> q, max_points_per_layer |-> 2,
                generate_surface |-> FALSE]] :
        k \in 0..(MaxRows + 1), q \in 1..2}

\* the slice tables with a full window at depth 2, the surface and every depth
\* slice asked for
FullSliceRequests ==
    {r \in SliceRequests :
        /\ \E c3 \in SliceCounts : r.file.table = SliceTable(MinSlicePoints, c3)
        /\ r.form.generate_surface /\ r.form.generate_amplitude_surface
        /\ r.form.surface_depth_slices = MaxSlices}

RunRequests == StepRequests \cup FullSliceRequests \cup EncodingRequests

\* the same file and form sent twice, under the same or another job id
Twice(r) ==
    {[t \in Threads |-> IF t = 1 THEN <<r>> ELSE <<[r EXCEPT !.uuid = id]>>] : id \in JobIds}

\* two runs of the pipeline on the same input with the same settings; the environment
\* may fail the first
InitRuns ==
    /\ Fresh
    /\ MeshIdle
    /\ \E r \in RunRequests, b \in 0..MaxFaults : \E reqs \in Twice(r) :
           /\ request = reqs
           /\ budget = [t \in Threads |-> IF t = 1 THEN b ELSE 0]

SpecRuns == InitRuns /\ [][Next]_vars

\* one run, while clients may clean jobs up.  upload_file starts the worker thread
\* (lines 1307-1312) and the interpreter keeps scheduling a thread that can run, so a
\* run that can take a step eventually takes one; nothing obliges a client to clean up
InitLive ==
    /\ Fresh
    /\ MeshIdle
    /\ \E r \in RunRequests, b \in 0..MaxFaults : Sent(OneRequest(r), b)

SpecLive == InitLive /\ [][NextLive]_vars /\ \A t \in Threads : WF_vars(Run(t))

\* the mesh builders alone, on every grid of the bounds
InitMesh ==
    /\ Fresh
    /\ Sent([t \in Threads |-> <<>>], 0)
    /\ MeshStarted

SpecMesh == InitMesh /\ [][NextMesh]_vars

(***************************************************************************)
(* Properties.                                                             *)
(***************************************************************************)
RECURSIVE SumOver(_, _)
SumOver(S, f) ==
    IF S = {} THEN 0
    ELSE LET e == CHOOSE v \in S : TRUE IN f[e] + SumOver(S \ {e}, f)

Status(t) == processing_jobs[job_id[t]].status
Message(t) == processing_jobs[job_id[t]].message.text
Completed(t) == pc[t] = "done" /\ HasJob(job_id[t]) /\ Status(t) = "completed"
Failed(t) == pc[t] = "done" /\ HasJob(job_id[t]) /\ Status(t) = "error"

\* the files of the run's output directory
OutputDir(t) == IF DirExists(job_id[t]) THEN processed[job_id[t]] ELSE <<>>
FilesOfKind(t, kinds) == {nm \in DOMAIN OutputDir(t) : nm[1] \in kinds}
LayerFiles(t) == FilesOfKind(t, {"layer"})
GeometryFiles(t) == FilesOfKind(t, {"layer", "surface_amplitude.obj", "slice"})

\* the points declared by the layer files of the output directory
LayerFilePoints(t) ==
    SumOver(LayerFiles(t), [nm \in LayerFiles(t) |-> OutputDir(t)[nm].body.vertex])

\* the population of the bin of a label
Population(t, level) == Cardinality({i \in 1..Len(iso_range[t]) : iso_range[t][i] = level})

NoLayerExceedsCap(t) ==
    \A i \in 1..Len(iso_range[t]) :
        Population(t, iso_range[t][i]) <= settings[t].max_points_per_layer

\* C1: when no bin exceeds max_points_per_layer, the layer files of a completed run
\* hold together as many points as the amplitude filter retained, on both binning
\* paths (as claimed; the layer loop visits range(actual_bins) only)
C1_LayersLossless ==
    \A t \in Threads :
        (Completed(t) /\ NoLayerExceedsCap(t))
            => LayerFilePoints(t) = Len(df_filtered[t])

\* C2: a layer whose bin holds more than max_points_per_layer points is written with
\* exactly max_points_per_layer points, pairwise distinct rows of that bin, the first
\* ones of the seed-42 permutation; a layer whose bin holds at most that many is
\* written with every row of the bin, in order
C2_SampleExact ==
    \A t \in Threads : \A j \in 1..Len(ply_files[t]) :
        LET level == ply_files[t][j][2] - 1
            bin   == LevelRows(iso_range[t], level)
            cap   == settings[t].max_points_per_layer
            idx   == layer_index[t][j]
            file  == OutputDir(t)[ply_files[t][j]].body
        IN  /\ file.vertex = Len(idx)
            /\ file.points = [k \in 1..Len(idx) |->
                                <<df_filtered[t][idx[k]].x, df_filtered[t][idx[k]].y,
                                  df_filtered[t][idx[k]].z>>]
            /\ IF Len(bin) > cap
               THEN /\ Len(idx) = cap
                    /\ \A a, b \in 1..Len(idx) : a # b => idx[a] # idx[b]
                    /\ \A a \in 1..Len(idx) : iso_range[t][idx[a]] = level
                    /\ idx = [k \in 1..cap |-> bin[Perm42[Len(bin)][k] + 1]]
               ELSE idx = bin

\* a completed run that wrote a layer of a bin larger than a cap of at least two points
C2_Witness ==
    \E t \in Threads : \E j \in 1..Len(ply_files[t]) :
        /\ Completed(t)
        /\ settings[t].max_points_per_layer >= 2
        /\ Population(t, ply_files[t][j][2] - 1) > settings[t].max_points_per_layer

\* the filter has run: the stages after it, and the ends they lead to
Filtered(t) ==
    \/ pc[t] \in {"surface", "surface_mesh", "slices", "write_slice", "bin", "layer",
                  "info", "complete"}
    \/ pc[t] \in {"done", "except"} /\ Len(data[t]) > 0 /\ exc[t] # "ValueError"

StrictlyAbove(t) == {i \in 1..Len(data[t]) : PctDen * Abs(data[t][i].amp) > threshold[t]}

\* C3: the filter keeps exactly the points with |amplitude| strictly above the threshold
\* quantile, every point of a layer has |amplitude| above it, and when no point is
\* strictly above it the run ends with status 'error', the message advising to lower
\* the percentile, and without a layer, surface or slice file
C3_StrictFilter ==
    \A t \in Threads :
        Filtered(t) =>
            /\ Len(df_filtered[t]) = Cardinality(StrictlyAbove(t))
            /\ \A i \in 1..Len(df_filtered[t]) :
                   PctDen * Abs(df_filtered[t][i].amp) > threshold[t]
            /\ \A j \in 1..Len(amplitude_ranges[t]) :
                   PctDen * amplitude_ranges[t][j][1] > threshold[t]
            /\ (StrictlyAbove(t) = {} /\ pc[t] = "done") =>
                   /\ Failed(t)
                   /\ Message(t) = "No points after filtering! Try lowering the percentile."
                   /\ GeometryFiles(t) = {}
            /\ (StrictlyAbove(t) = {}) => pc[t] = "done"

\* a run whose points all lie at the threshold has ended
C3_Witness ==
    \E t \in Threads :
        /\ pc[t] = "done" /\ Filtered(t)
        /\ Len(data[t]) >= 2
        /\ StrictlyAbove(t) = {}

\* the table has been parsed and the column check has run
ColumnsChecked(t) ==
    df[t].ncols > 0 /\ pc[t] # "found" /\ HasJob(job_id[t])

ColumnIndices(t) ==
    {settings[t].col_idx_x, settings[t].col_idx_y, settings[t].col_idx_z,
     settings[t].col_idx_amplitude}

ColumnMessage == "CSV file has only columns, but need column index"

\* C4: when one of the four column indices is at or beyond the column count the run
\* ends with status 'error' and a message naming such an index, no row is coerced and
\* no geometry file is written; when all four are columns of the table the run is
\* not failed for its columns
C4_ColumnCheck ==
    \A t \in Threads :
        ColumnsChecked(t) =>
            IF \E c \in ColumnIndices(t) : c >= df[t].ncols
            THEN /\ Failed(t)
                 /\ Message(t) = ColumnMessage
                 /\ processing_jobs[job_id[t]].message.args[1] = df[t].ncols
                 /\ processing_jobs[job_id[t]].message.args[2] \in ColumnIndices(t)
                 /\ processing_jobs[job_id[t]].message.args[2] >= df[t].ncols
                 /\ data[t] = <<>>
                 /\ GeometryFiles(t) = {}
            ELSE Message(t) # ColumnMessage

\* a run on a table of five columns has failed on column index 5
C4_Witness ==
    \E t \in Threads :
        /\ ColumnsChecked(t) /\ Failed(t)
        /\ df[t].ncols = 5
        /\ processing_jobs[job_id[t]].message.args = <<5, 5>>

\* the rows of the parsed table whose four selected cells are numbers
NumericRows(t) ==
    {i \in 1..Len(df[t].rows) :
        \A c \in ColumnIndices(t) : df[t].rows[i][c + 1].kind = "number"}

\* the k-th smallest element of a set of numbers
RECURSIVE Nth(_, _)
Nth(S, k) == IF k = 1 THEN SetMin(S) ELSE Nth(S \ {SetMin(S)}, k - 1)

\* the coercion has run: the stages after it, and the ends they lead to
Coerced(t) ==
    /\ ColumnsChecked(t)
    /\ pc[t] # "coerce"
    /\ \A c \in ColumnIndices(t) : c < df[t].ncols

NoNumericMessage == "No valid numeric data found in specified columns"

\* C5: the extracted point set holds one point per row whose four selected cells are
\* numbers, in the order of the table, and none for any other row; the run fails with
\* 'No valid numeric data' exactly when no row is left
C5_RowsDropped ==
    \A t \in Threads :
        Coerced(t) =>
            /\ Len(data[t]) = Cardinality(NumericRows(t))
            /\ (pc[t] = "normalise") =>
                   \A k \in 1..Len(data[t]) :
                       LET row == df[t].rows[Nth(NumericRows(t), k)]
                       IN  data[t][k] =
                               [x |-> row[settings[t].col_idx_x + 1].v,
                                y |-> row[settings[t].col_idx_y + 1].v,
                                z |-> row[settings[t].col_idx_z + 1].v,
                                amp |-> row[settings[t].col_idx_amplitude + 1].v]
            /\ (Failed(t) /\ Message(t) = NoNumericMessage) <=> (NumericRows(t) = {})
            /\ (NumericRows(t) = {}) => pc[t] = "done"

\* a table with a row that is dropped and a row that is kept has been extracted
C5_Witness ==
    \E t \in Threads :
        /\ Coerced(t) /\ pc[t] = "normalise"
        /\ Len(data[t]) >= 1
        /\ Len(data[t]) < Len(df[t].rows)

\* C8: the layers of a completed run are the files layer_1 .. layer_k in the order
\* written, and the amplitudes of a layer are at most those of every later layer
\* (as claimed; an empty bin among range(actual_bins) leaves a gap in the numbers)
C8_LayersContiguous ==
    \A t \in Threads :
        Completed(t) =>
            /\ \A j \in 1..Len(ply_files[t]) : ply_files[t][j] = <<"layer", j>>
            /\ \A i, j \in 1..Len(ply_files[t]) :
                   i < j => amplitude_ranges[t][i][2] <= amplitude_ranges[t][j][1]

\* the windows of the depth slices have been looked at
SlicesGenerated(t) ==
    \/ pc[t] = "write_slice"
    \/ Len(slices[t]) > 0

WindowCount(t, k) ==
    LET rows == df_filtered[t]
        n    == settings[t].surface_depth_slices
    IN  Cardinality({i \in 1..Len(rows) :
            InWindow(rows[i].z, ColMin(rows, "z"), ColMax(rows, "z"), n, k)})

EmittedDepths(t) == {k \in 1..settings[t].surface_depth_slices : WindowCount(t, k) >= 10}

\* C9: generate_depth_slices returns one mesh for each target depth with at least 10
\* points in its window, in the order of the depths, and none for any other depth;
\* num_slices is the number of the meshes returned, and a run with retained points and
\* no failed write ends 'completed' with that num_slices in info.json
C9_SparseSlicesSkipped ==
    \A t \in Threads :
        /\ SlicesGenerated(t) =>
               /\ Len(slices[t]) = Cardinality(EmittedDepths(t))
               /\ \A j \in 1..Len(slices[t]) :
                      LET k == Nth(EmittedDepths(t), j)
                          rows == df_filtered[t]
                      IN  slices[t][j].depth =
                              <<SliceDepthTimes(ColMin(rows, "z"), ColMax(rows, "z"),
                                                settings[t].surface_depth_slices, k),
                                settings[t].surface_depth_slices + 1>>
               /\ num_slices[t] = Len(slices[t])
        /\ (pc[t] = "done" /\ Len(df_filtered[t]) > 0 /\ faults[t] = <<>>) =>
               /\ Completed(t)
               /\ OutputDir(t)[<<"info.json", 0>>].body.num_slices = Len(slices[t])
               /\ \A j \in 1..Len(slices[t]) : <<"slice", j>> \in DOMAIN OutputDir(t)
               /\ FilesOfKind(t, {"slice"}) = {<<"slice", j>> : j \in 1..Len(slices[t])}

\* a completed run that asked for two slices and emitted one, the other window
\* holding fewer than 10 points
C9_Witness ==
    \E t \in Threads :
        /\ Completed(t)
        /\ settings[t].surface_depth_slices = 2
        /\ num_slices[t] = 1
        /\ \E k \in 1..2 : WindowCount(t, k) \in 1..9

\* C6: a mesh returned by a builder has resolution * resolution vertices and
\* 2 * (resolution - 1) * (resolution - 1) faces, for every resolution from 2 on
C6_MeshSize ==
    mesh_pc = "returned" =>
        /\ Len(vertices) = resolution * resolution
        /\ Len(faces) = 2 * (resolution - 1) * (resolution - 1)

\* a slice mesh of the largest resolution has been returned
C6_Witness ==
    /\ mesh_pc = "returned"
    /\ mesh_kind = "slice"
    /\ resolution = MaxRes
    /\ Len(faces) > 0

\* C7: in a returned mesh every face index is at least 0 and below the vertex count,
\* there are as many colours as vertices, the vertex at i * resolution + j is the
\* lattice node (xi[j], yi[i]), and the two triangles of cell (i, j) are
\* (idx, idx + 1, idx + R) and (idx + 1, idx + R + 1, idx + R) with idx = i * R + j
C7_MeshIndices ==
    /\ Len(vertex_colors) = Len(vertices)
    /\ \A f \in 1..Len(faces) : \A c \in 1..3 :
           faces[f][c] >= 0 /\ faces[f][c] < resolution * resolution
    /\ mesh_pc = "returned" =>
           /\ \A f \in 1..Len(faces) : \A c \in 1..3 : faces[f][c] < Len(vertices)
           /\ \A nd \in Nodes(resolution) :
                  /\ vertices[nd[1] * resolution + nd[2] + 1][1]
                         = LinspaceTimes(x_range, resolution, nd[2])
                  /\ vertices[nd[1] * resolution + nd[2] + 1][2]
                         = LinspaceTimes(y_range, resolution, nd[1])
           /\ \A nd \in Nodes(resolution - 1) :
                  LET idx  == nd[1] * resolution + nd[2]
                      cell == nd[1] * (resolution - 1) + nd[2]
                  IN  /\ faces[2 * cell + 1] = <<idx, idx + 1, idx + resolution>>
                      /\ faces[2 * cell + 2]
                             = <<idx + 1, idx + resolution + 1, idx + resolution>>

\* a surface mesh of the largest resolution has been returned
C7_Witness ==
    /\ mesh_pc = "returned"
    /\ mesh_kind = "surface"
    /\ resolution = MaxRes
    /\ Len(faces) = 2 * (MaxRes - 1) * (MaxRes - 1)
    /\ x_range[1] < x_range[2]

\* both runs have ended and the environment has failed neither
BothDone ==
    /\ pc[1] = "done" /\ pc[2] = "done"
    /\ faults[1] = <<>> /\ faults[2] = <<>>
    /\ uploads[job_id[1]] = uploads[job_id[2]]
    /\ settings[1] = settings[2]

\* C10: two runs on the same file with the same settings, neither met by a failure
\* of the environment, end with the same status and leave the same layer, surface
\* and slice files with the same contents, whatever their job ids and their order
C10_SameOutput ==
    BothDone =>
        /\ Status(1) = Status(2)
        /\ GeometryFiles(1) = GeometryFiles(2)
        /\ \A nm \in GeometryFiles(1) : OutputDir(1)[nm] = OutputDir(2)[nm]

\* two completed runs under different job ids, each with a sampled layer
C10_Witness ==
    /\ BothDone
    /\ job_id[1] # job_id[2]
    /\ Completed(1) /\ Completed(2)
    /\ \E j \in 1..Len(ply_files[1]) :
           Population(1, ply_files[1][j][2] - 1) > settings[1].max_points_per_layer

(***************************************************************************)
(* C11: write_obj_mesh writes one v line per vertex and one f line per     *)
(* face, every v line before every f line; the f line of the face (a, b, c)*)
(* carries a + 1, b + 1, c + 1, and every index on an f line is at least 1 *)
(* and at most the number of v lines.  The order holds while the file is   *)
(* being written, the counts once it is closed.                            *)
(***************************************************************************)
LinesTagged(tag) == {k \in 1..Len(obj_lines) : obj_lines[k].tag = tag}

C11_ObjIndices ==
    /\ \A k \in LinesTagged("v"), m \in LinesTagged("f") : k < m
    /\ mesh_pc = "written" =>
          /\ Cardinality(LinesTagged("v")) = Len(vertices)
          /\ Cardinality(LinesTagged("f")) = Len(faces)
          /\ \A m \in 1..Len(faces) :
                LET ln == obj_lines[1 + Len(vertices) + m]
                IN  /\ ln.tag = "f"
                    /\ \A c \in 1..3 :
                          /\ ln.nums[c] = faces[m][c] + 1
                          /\ ln.nums[c] >= 1
                          /\ ln.nums[c] <= Cardinality(LinesTagged("v"))

\* a closed file whose last face line names the last vertex line
C11_Witness ==
    /\ mesh_pc = "written"
    /\ Len(faces) > 0
    /\ \E m \in LinesTagged("f") : \E c \in 1..3 :
           obj_lines[m].nums[c] = Cardinality(LinesTagged("v"))
    /\ \E m \in LinesTagged("f") : \E c \in 1..3 : obj_lines[m].nums[c] = 1

\* the geometry files an environment failure has hit in the run
FailedWrites(t) ==
    {faults[t][k][1] : k \in 1..Len(faults[t])} \cap
        {nm \in {"layer", "surface_amplitude.obj", "slice"} \X (0..(MaxRows + MaxSlices)) : TRUE}

(***************************************************************************)
(* C12: a geometry file (layer, surface, slice) found in an output         *)
(* directory is complete: a writer that fails part-way leaves no file at   *)
(* the destination (as claimed; the writers open the destination itself    *)
(* and write into it).                                                     *)
(***************************************************************************)
C12_NoPartialFile ==
    \A id \in DOMAIN processed : \A nm \in DOMAIN processed[id] :
        nm[1] \in {"layer", "surface_amplitude.obj", "slice"} => processed[id][nm].complete

(***************************************************************************)
(* C13: a run in which the writing of a geometry file (layer, surface or   *)
(* slice) failed does not end 'completed' (as claimed; a failure inside    *)
(* the surface block is absorbed by the handler of lines 1152-1153).       *)
(***************************************************************************)
C13_WriterFailureFatal ==
    \A t \in Threads : FailedWrites(t) # {} => ~Completed(t)

(***************************************************************************)
(* C14: every run started by upload_file eventually has a terminal status  *)
(* in the registry, 'completed' or 'error', whatever fails, the update of  *)
(* the registry by the top-level handler included (as claimed; the handler *)
(* of lines 1251-1256 indexes the registry without a guard).               *)
(***************************************************************************)
Terminal(t) == HasJob(job_id[t]) /\ Status(t) \in {"completed", "error"}

C14_RunsTerminate == \A t \in Threads : (pc[t] = "pending") ~> Terminal(t)

(***************************************************************************)
(* C15: two runs never have the same run identifier, so their output       *)
(* directories and their registry entries are distinct (as claimed; the    *)
(* identifier is the first eight hex digits of a random UUID, taken        *)
(* without a look at the registry).                                        *)
(***************************************************************************)
Started(t) == pc[t] # "idle"

C15_DistinctRuns ==
    \A t \in Threads, u \in Threads :
        (t # u /\ Started(t) /\ Started(u)) => job_id[t] # job_id[u]

\* the rows read from the file, and the same rows after the depth inversion and the
\* centring the settings ask for, as numerators over UnscaledDen
RawData(t) == Extract(df[t], settings[t])

UnscaledDen(t) == IF settings[t].center_coordinates THEN Len(RawData(t)) ELSE 1

Unscaled(t) ==
    LET raw == RawData(t)
        n == Len(raw)
        st == settings[t]
        zi(i) == IF st.invert_depth THEN -Abs(raw[i].z) ELSE raw[i].z
    IN  [i \in 1..n |->
            [x |-> IF st.center_coordinates
                   THEN n * raw[i].x - SumSeq([k \in 1..n |-> raw[k].x]) ELSE raw[i].x,
             y |-> IF st.center_coordinates
                   THEN n * raw[i].y - SumSeq([k \in 1..n |-> raw[k].y]) ELSE raw[i].y,
             z |-> UnscaledDen(t) * zi(i)]]

\* the larger horizontal extent of the rows read from the file
RawRange(t) ==
    LET raw == RawData(t)
        xs == {raw[i].x : i \in 1..Len(raw)}
        ys == {raw[i].y : i \in 1..Len(raw)}
    IN  Max2(SetMax(xs) - SetMin(xs), SetMax(ys) - SetMin(ys))

\* data is Unscaled times the factor num/dn, coordinate by coordinate
ScaledBy(t, num, dn) ==
    /\ Len(data[t]) = Len(RawData(t))
    /\ \A i \in 1..Len(data[t]) :
          /\ data[t][i].x * UnscaledDen(t) * dn = Unscaled(t)[i].x * num * den[t]
          /\ data[t][i].y * UnscaledDen(t) * dn = Unscaled(t)[i].y * num * den[t]
          /\ data[t][i].z * UnscaledDen(t) * dn = Unscaled(t)[i].z * num * den[t]
          /\ data[t][i].amp = RawData(t)[i].amp

Normalised(t) == pc[t] = "filter"

(***************************************************************************)
(* C16: after the normalisation the coordinates are those of the file with *)
(* the depth inverted (z := -|z|) if invert_depth is set, then x and y     *)
(* moved by their means if center_coordinates is set (z is not moved),     *)
(* then all three multiplied by one positive factor; a step whose flag is  *)
(* unset changes nothing; with invert_depth set every z is <= 0.           *)
(***************************************************************************)
C16_NormaliseOrder ==
    \A t \in Threads : Normalised(t) =>
        /\ ScaledBy(t, 1, 1) \/ ScaledBy(t, ScaleTarget, RawRange(t))
        /\ settings[t].invert_depth => \A i \in 1..Len(data[t]) : data[t][i].z <= 0

\* both flags set, a positive depth in the file, means that are not zero
C16_Witness ==
    \E t \in Threads :
        /\ Normalised(t)
        /\ settings[t].invert_depth /\ settings[t].center_coordinates
        /\ \E i \in 1..Len(RawData(t)) : RawData(t)[i].z > 0
        /\ \E i \in 1..Len(data[t]) : data[t][i].z < 0
        /\ RawRange(t) > ScaleLimit

(***************************************************************************)
(* C17: with range the larger of the extents of x and of y, a range above  *)
(* 50 has x, y and z multiplied by 10 / range, after which the larger      *)
(* extent is exactly 10; a range of 50 or less leaves the coordinates as   *)
(* they are; so the larger extent is never above 50 after normalisation.   *)
(***************************************************************************)
C17_Rescale ==
    \A t \in Threads : Normalised(t) =>
        /\ RawRange(t) > ScaleLimit =>
              /\ ScaledBy(t, ScaleTarget, RawRange(t))
              /\ MaxRange(data[t]) = ScaleTarget * den[t]
        /\ RawRange(t) <= ScaleLimit => ScaledBy(t, 1, 1)
        /\ MaxRange(data[t]) <= ScaleLimit * den[t]

\* a table whose larger extent is exactly the limit, left as it is
C17_Witness ==
    \E t \in Threads :
        /\ Normalised(t)
        /\ RawRange(t) = ScaleLimit
        /\ MaxRange(data[t]) = ScaleLimit * den[t]

\* the depths of the retained points, and the number of slices asked for
ZMin(t) == SetMin({df_filtered[t][i].z : i \in 1..Len(df_filtered[t])})
ZMax(t) == SetMax({df_filtered[t][i].z : i \in 1..Len(df_filtered[t])})
Asked(t) == settings[t].surface_depth_slices

(***************************************************************************)
(* C18: with n slices asked for and zmin < zmax, the depth of every mesh   *)
(* returned by generate_depth_slices is zmax - k * (zmax - zmin) / (n + 1) *)
(* for a k in 1..n, so strictly between zmin and zmax; the meshes come in  *)
(* the order of falling z, from nearest zmax on; and the points of a mesh  *)
(* are the retained points with |z - depth| < (zmax - zmin) / (2n), the    *)
(* points at that distance itself left out.  A depth is carried as a       *)
(* numerator over n + 1.                                                   *)
(***************************************************************************)
C18_SliceDepths ==
    \A t \in Threads : \A j \in 1..Len(slices[t]) :
        LET n == Asked(t)
            dnum == slices[t][j].depth[1]
            rows == df_filtered[t]
        IN  /\ n >= 1
            /\ slices[t][j].depth[2] = n + 1
            /\ \E k \in 1..n : ZMax(t) * (n + 1) - dnum = k * (ZMax(t) - ZMin(t))
            /\ ZMin(t) < ZMax(t) => (ZMin(t) * (n + 1) < dnum /\ dnum < ZMax(t) * (n + 1))
            /\ j > 1 => dnum < slices[t][j - 1].depth[1]
            /\ slices[t][j].rows =
                   SelectSeq(rows, LAMBDA p :
                       2 * n * Abs(p.z * (n + 1) - dnum) < (n + 1) * (ZMax(t) - ZMin(t)))

\* two meshes returned, and a retained point in neither window
C18_Witness ==
    \E t \in Threads :
        /\ Len(slices[t]) >= 2
        /\ ZMin(t) < ZMax(t)
        /\ \E i \in 1..Len(df_filtered[t]) :
               \A j \in 1..Len(slices[t]) :
                   \A m \in 1..Len(slices[t][j].rows) :
                       slices[t][j].rows[m] # df_filtered[t][i]

\* the meshes of the run whose interpolation raised: the surface written to the
\* output directory, and the slices returned
SurfaceFellBack(t) ==
    /\ <<"surface_amplitude.obj", 0>> \in DOMAIN OutputDir(t)
    /\ OutputDir(t)[<<"surface_amplitude.obj", 0>>].body.grid # "griddata"

SlicesFallenBack(t) == {j \in 1..Len(slices[t]) : slices[t][j].grid # "griddata"}

Warnings(t) ==
    {k \in 1..Len(log[t]) : log[t][k].text = "Warning: Interpolation issue"}

(***************************************************************************)
(* C19: a surface or a slice whose interpolation raised is built on the    *)
(* uniform grid of the field's mean, each such failure has its warning in  *)
(* the log, and a run does not end 'error' on account of it (as claimed;   *)
(* the handler of lines 217-218 fills the grid with zeros and prints       *)
(* nothing).                                                               *)
(***************************************************************************)
C19_FallbackToMean ==
    \A t \in Threads :
        /\ SurfaceFellBack(t) =>
               OutputDir(t)[<<"surface_amplitude.obj", 0>>].body.grid = "mean"
        /\ \A j \in SlicesFallenBack(t) : slices[t][j].grid = "mean"
        /\ Cardinality(Warnings(t)) >=
               Cardinality(SlicesFallenBack(t)) + (IF SurfaceFellBack(t) THEN 1 ELSE 0)
        /\ (SlicesFallenBack(t) # {} /\ faults[t] = <<>> /\ pc[t] = "done") => Completed(t)

\* a step of run t in which a handler catches an exception and the run goes on: a
\* failed encoding attempt, an interpolation that raised (surface, slice), qcut
\* raising, a failure inside the surface block, the top-level handler
Absorbs(t) ==
    \/ pc[t] = "load" /\ enc_i'[t] > enc_i[t]
    \/ pc[t] = "surface_mesh" /\ settings[t].generate_amplitude_surface
                              /\ Degenerate(df_filtered[t])
    \/ pc[t] = "slices" /\ \E j \in 1..Len(slices'[t]) : slices'[t][j].grid # "griddata"
    \/ pc[t] \in {"surface_mesh", "write_slice", "bin"} /\ Len(faults'[t]) > Len(faults[t])
    \/ pc[t] = "except" /\ pc'[t] # "except"

(***************************************************************************)
(* C20: every step in which the pipeline catches an exception and carries  *)
(* on prints at least one line (as claimed; the bare handlers of lines 217 *)
(* and 1160 print nothing).                                                *)
(***************************************************************************)
C20_AbsorbedLogged ==
    [][\A t \in Threads : Absorbs(t) => Len(log'[t]) > Len(log[t])]_vars

\* the lattice node of the k-th vertex of the mesh being built, and equality of two
\* fractions (num, den)
NodeOf(k) == <<(k - 1) \div resolution, (k - 1) % resolution>>
SameFraction(a, b) == a[1] * b[2] = b[1] * a[2]

\* the normalised amplitude the builder uses at the k-th vertex
NormOf(k) ==
    IF mesh_kind = "surface" THEN SurfaceAmpNorm(amp_grid, NodeOf(k))
    ELSE SliceAmpNorm(amp_grid, NodeOf(k))

(***************************************************************************)
(* C21: every vertex of a surface mesh and of a slice mesh has the colour  *)
(* (n, g, 1 - n), n being the normalised amplitude of its node and g the   *)
(* same for all vertices of the mesh (as claimed; the green of a slice     *)
(* vertex is 0.3 * (1 - n)).                                               *)
(***************************************************************************)
C21_ColourRamp ==
    \A k \in 1..Len(vertex_colors) :
        /\ SameFraction(vertex_colors[k][1], NormOf(k))
        /\ SameFraction(vertex_colors[k][3], <<NormOf(k)[2] - NormOf(k)[1], NormOf(k)[2]>>)
        /\ \A m \in 1..Len(vertex_colors) :
               SameFraction(vertex_colors[k][2], vertex_colors[m][2])

(***************************************************************************)
(* C22: the normalised amplitude of a vertex, its red component, is        *)
(* (v - min) / (max - min) over the smoothed grid, and 0 at every vertex   *)
(* when max = min, in a surface mesh and in a slice mesh alike (as         *)
(* claimed; a slice divides by max and subtracts no minimum).              *)
(***************************************************************************)
C22_NormalisedScalar ==
    \A k \in 1..Len(vertex_colors) :
        LET lo == GridMin(amp_grid)
            hi == GridMax(amp_grid)
        IN  IF hi > lo
            THEN SameFraction(vertex_colors[k][1], <<amp_grid[NodeOf(k)] - lo, hi - lo>>)
            ELSE vertex_colors[k][1][1] = 0

\* the lines the encoding loop printed, one per attempt, and the file being read
Attempts(t) ==
    SelectSeq(log[t], LAMBDA ln : ln.text \in {"Failed with", "Successfully read"})

ReadFile(t) == uploads[job_id[t]]

AllCandidatesFail(t) == \A i \in 1..Len(encodings) : ReadFile(t).reads[i] # "ok"

(***************************************************************************)
(* C23: the candidate encodings are tried in list order, the first that    *)
(* parses ends the loop, the attempt with decoding errors ignored is made  *)
(* only when every candidate failed, and a run ends without a table only   *)
(* with 'Failed to read CSV file', after all candidates and that attempt   *)
(* failed: a failing candidate, whatever it raised, leads to the next one  *)
(* (as claimed; the loop catches UnicodeDecodeError and ParserError only). *)
(***************************************************************************)
C23_EncodingOrder ==
    \A t \in Threads : job_id[t] \in DOMAIN uploads =>
        /\ \A k \in 1..Len(Attempts(t)) :
              /\ Attempts(t)[k].args = <<k>>
              /\ Attempts(t)[k].text = "Successfully read" =>
                     k = Len(Attempts(t)) /\ ReadFile(t).reads[k] = "ok"
              /\ Attempts(t)[k].text = "Failed with" => ReadFile(t).reads[k] # "ok"
        /\ (\E k \in 1..Len(log[t]) : log[t][k].text = "Read with encoding errors ignored") =>
               AllCandidatesFail(t) /\ Len(Attempts(t)) = Len(encodings)
        /\ (pc[t] = "done" /\ df[t] = NoTable) =>
               /\ AllCandidatesFail(t)
               /\ ReadFile(t).lossy # "ok"
               /\ Failed(t)
               /\ Message(t) = "Failed to read CSV file"

\* the stage a registry message announces: 1 load, 2 filtering, 3 meshing, 4 layer
\* writing, 5 completion or error; 0 before the worker has started.  No message of the
\* program announces the filtering
StageOf(text) ==
    IF text = "Waiting to start..." THEN 0
    ELSE IF text \in {"Loading CSV file...", "Detecting file encoding...",
                      "Found rows, processing..."} THEN 1
    ELSE IF text = "Generating surfaces..." THEN 3
    ELSE IF text \in {"Creating amplitude layers...", "Creating VR viewer..."} THEN 4
    ELSE 5

\* the stage whose work run t is about to do
WorkStage(t) ==
    IF pc[t] \in {"mkdir", "load"} THEN 1
    ELSE IF pc[t] = "filter" THEN 2
    ELSE IF pc[t] \in {"surface_mesh", "slices", "write_slice"} THEN 3
    ELSE IF pc[t] \in {"layer", "info"} THEN 4
    ELSE 0

(***************************************************************************)
(* C24: the checkpoints reach the registry in the order load start,        *)
(* filtering, meshing, layer writing, completion or error, never one of an *)
(* earlier stage after one of a later stage, and when the work of a stage  *)
(* begins the registry shows that stage's checkpoint, the filtering stage  *)
(* included (as claimed; no checkpoint is pushed between the loading and   *)
(* the meshing).                                                           *)
(***************************************************************************)
C24_CheckpointOrder ==
    [][\A t \in Threads :
          (HasJob(job_id[t]) /\ HasJob(job_id[t])') =>
              /\ StageOf(Message(t))' >= StageOf(Message(t))
              /\ WorkStage(t)' # 0 => StageOf(Message(t))' = WorkStage(t)']_vars

(***************************************************************************)
(* C25: from the upload on no step of a run changes an entry of the run's  *)
(* settings, and building the settings of one run changes neither the      *)
(* module's DEFAULT_SETTINGS nor the settings of another run.              *)
(***************************************************************************)
C25_SettingsReadOnly ==
    [][/\ default_settings' = DEFAULT_SETTINGS
       /\ \A t \in Threads :
             /\ pc[t] # "idle" => settings'[t] = settings[t]
             /\ pc[t] = "idle" /\ pc'[t] # "idle" =>
                    \A u \in Threads \ {t} : settings'[u] = settings[u]]_vars

\* two runs have ended, one of them completed with slices, under settings that are not
\* the defaults and that info.json holds as they were built
C25_Witness ==
    /\ pc[1] = "done" /\ pc[2] = "done"
    /\ settings[1] # DEFAULT_SETTINGS
    /\ \E t \in Threads :
           /\ Completed(t)
           /\ Len(slices[t]) > 0
           /\ OutputDir(t)[<<"info.json", 0>>].body.settings = settings[t]

\* a file of the output directory of job id that was written to its end
FullyWritten(id, nm) ==
    /\ DirExists(id)
    /\ nm \in DOMAIN processed[id]
    /\ processed[id][nm].complete

(***************************************************************************)
(* C26: while the registry reports a job 'completed', index.html and       *)
(* info.json of the job are fully written, every layer file the run        *)
(* counted in total_points is in the output directory, and /view/<job_id>  *)
(* does not answer 'Viewer not found'.                                     *)
(***************************************************************************)
C26_CompletedHasFiles ==
    \A t \in Threads :
        (HasJob(job_id[t]) /\ Status(t) = "completed") =>
            /\ FullyWritten(job_id[t], <<"index.html", 0>>)
            /\ FullyWritten(job_id[t], <<"info.json", 0>>)
            /\ pc[t] = "done" =>
                   \A j \in 1..Len(ply_files[t]) : FullyWritten(job_id[t], ply_files[t][j])
            /\ view_result(job_id[t]) = "index.html"

\* the status changes a registry entry may make
StatusMoves ==
    {<<"pending", "processing">>, <<"processing", "completed">>, <<"processing", "error">>}

(***************************************************************************)
(* C27: the status of a job only moves pending -> processing ->            *)
(* {completed, error}: an entry is created 'pending', becomes 'processing' *)
(* once, and a terminal status never changes again.                        *)
(***************************************************************************)
C27_StatusMonotone ==
    [][\A id \in JobIds :
          /\ (~HasJob(id) /\ id \in DOMAIN processing_jobs') =>
                 processing_jobs'[id].status = "pending"
          /\ (HasJob(id) /\ id \in DOMAIN processing_jobs') =>
                 \/ processing_jobs'[id].status = processing_jobs[id].status
                 \/ <<processing_jobs[id].status, processing_jobs'[id].status>> \in StatusMoves
      ]_vars

\* the summary a completed run left in info.json
Info(t) == OutputDir(t)[<<"info.json", 0>>].body

(***************************************************************************)
(* C28: for every completed run, 'layers' of info.json equals the number   *)
(* of layer_*.ply files written, and 'total_points' equals the sum of the  *)
(* vertex counts declared in the headers of those files.                   *)
(***************************************************************************)
C28_SummaryMatchesFiles ==
    \A t \in Threads :
        Completed(t) =>
            /\ Info(t).layers = Cardinality(LayerFiles(t))
            /\ Info(t).total_points = LayerFilePoints(t)

\* the part about total_points alone
TotalPointsMatchFiles ==
    \A t \in Threads : Completed(t) => Info(t).total_points = LayerFilePoints(t)

\* the parameters create_vr_viewer put into index.html
Viewer(t) == OutputDir(t)[<<"index.html", 0>>].body

GeometryFlagsNoFault ==
    \A t \in Threads :
        (Completed(t) /\ faults[t] = <<>> /\ settings[t].generate_amplitude_surface) =>
            /\ Info(t).has_surface => FullyWritten(job_id[t], <<"surface_amplitude.obj", 0>>)
            /\ \A k \in 1..Info(t).num_slices : FullyWritten(job_id[t], <<"slice", k>>)

\* cleanup_job has returned for the job of run t: upload_file made the entry and
\* only cleanup_job deletes one
CleanedUp(t) == pc[t] # "idle" /\ ~HasJob(job_id[t])

\* after the cleanup nothing of the job is left, and nothing comes back
NothingLeft(t) == ~DirExists(job_id[t]) /\ job_id[t] \notin DOMAIN uploads

\* the worker thread died of an exception raised inside its own handler
Died(t) == pc[t] = "crashed"

(***************************************************************************)
(* C30: cleanup_job is safe against a running worker: once cleanup_job     *)
(* has returned for a job, no registry entry, upload file or output        *)
(* directory of the job exists in any later state (the worker neither      *)
(* recreates the directory nor writes into it), and the worker ends        *)
(* through its reported-error path instead of dying on the missing entry.  *)
(***************************************************************************)
C30_CleanupSafe ==
    \A t \in Threads : CleanedUp(t) => (NothingLeft(t) /\ ~Died(t))

====
